---- MODULE Spec2Model ----
(***************************************************************************)
(* The scheduler core of scale as state machines.                          *)
(* Spec, FairSpec: the scheduling loop (scheduler/threads/schedule.py),    *)
(*   one scheduling thread running rounds, driver callback threads         *)
(*   delivering offers and task status updates, and the collaborators the  *)
(*   loop drives (offer manager, running job execution manager, queue).    *)
(*   SpecSteady, FairSteady: the same loop with offers and jobs that keep  *)
(*   coming.                                                               *)
(* SpecRetry: the persistence call of a round and its retries.             *)
(* SpecCleanup: the cleanup manager (scheduler/cleanup/manager.py), a call *)
(*   a step; SpecCleanupRepeats: with executions handed over again;        *)
(*   SpecLock: the same manager, a statement a step, two threads.          *)
(* SpecVolume: volume parameters (job/configuration/volume.py).            *)
(* SpecTags, SpecStatus: data type tags and the status rollup of           *)
(*   ingest/models.py.  SpecDedup: the batches of a scan.                  *)
(* SpecScanner: the file callback of a scanner.                            *)
(***************************************************************************)
EXTENDS Integers, Sequences, FiniteSets, TLC

\* ------------------------------------------------------------------ bounds
MaxQueue == 3
TasksPerExe == 2

\* SchedulingThread.MAX_NEW_JOB_EXES (500 in the source), scaled so that a
\* queue of MaxQueue entries reaches it.
MAX_NEW_JOB_EXES == 2

\* The offers the driver pushes, in this order; the offer id is the position.
OfferFeed ==
    <<[node |-> 1, res |-> [cpus |-> 2, mem |-> 2]],
      [node |-> 2, res |-> [cpus |-> 2, mem |-> 2]],
      [node |-> 1, res |-> [cpus |-> 2, mem |-> 2]]>>

Nodes == {1, 2}
Offers == 1 .. Len(OfferFeed)
QueueIds == 1 .. MaxQueue
JobTypeIds == {1, 2}
JobTypeStates == {"active", "paused", "absent"}
\* The job type snapshots a round is given: type 1 known, type 2 never paused.
JobTypeSnapshots ==
    {jt \in [JobTypeIds -> JobTypeStates] : jt[1] # "absent" /\ jt[2] # "paused"}

\* ------------------------------------------------------- resources, inputs
ZeroRes == [cpus |-> 0, mem |-> 0]
Plus(a, b) == [cpus |-> a.cpus + b.cpus, mem |-> a.mem + b.mem]
Minus(a, b) == [cpus |-> a.cpus - b.cpus, mem |-> a.mem - b.mem]
Fits(req, avail) == req.cpus <= avail.cpus /\ req.mem <= avail.mem

\* An offer is the triple (offer_id, node_id, resources).
OfferNode(o) == OfferFeed[o].node
OfferRes(o) == OfferFeed[o].res
\* A queue entry is (queue_id, job_type_id, required_resources); the running
\* execution scheduled from queue entry q keeps the id q and its tasks need
\* the resources of q.
JobTypeOf(q) == IF q % 2 = 1 THEN 1 ELSE 2
Required(q) == IF JobTypeOf(q) = 1 THEN [cpus |-> 1, mem |-> 1] ELSE [cpus |-> 2, mem |-> 1]

RECURSIVE SumOfferRes(_)
SumOfferRes(S) ==
    IF S = {} THEN ZeroRes
    ELSE LET o == CHOOSE x \in S : TRUE IN Plus(OfferRes(o), SumOfferRes(S \ {o}))

RECURSIVE SumRequired(_)
SumRequired(s) == IF s = <<>> THEN ZeroRes ELSE Plus(Required(Head(s)), SumRequired(Tail(s)))

RECURSIVE SortedSeq(_)
SortedSeq(S) ==
    IF S = {} THEN <<>>
    ELSE LET m == CHOOSE x \in S : \A y \in S : x <= y IN <<m>> \o SortedSeq(S \ {m})

Range(s) == {s[i] : i \in 1 .. Len(s)}

\* ------------------------------------------------------------------- state
VARIABLES
    pc,                \* position of the scheduling thread in run()
    running,           \* SchedulingThread._running
    job_types,         \* SchedulingThread._job_types (snapshot of the round)
    new_offers,        \* offer manager: buffer of offers not yet readied
    node_offers,       \* offer manager: per node NodeOffers
    queue,             \* persistence: queue entries still queued
    job_exes,          \* running job executions (and their terminal states)
    next_offer,        \* driver: id of the next offer it will push
    outstanding_tasks, \* driver: launched, not yet terminal tasks per execution
    round,             \* what the round in progress (or just ended) did
    retry_pc,          \* position inside the try block of _schedule_accepted_tasks
    job_executions,    \* argument of _schedule_queued_job_executions
    attempts,          \* outcome of each Queue.objects.schedule_job_executions call
    agent_ids,         \* CleanupManager._agent_ids {Agent ID: Node ID}
    nodes,             \* CleanupManager._nodes {Node ID: NodeCleanup}
    last,              \* the last call made on the cleanup manager and its outcome
    lock,              \* CleanupManager._lock: the thread that holds it, 0 when free
    thread,            \* per thread: the manager method it is in and where
    committed,         \* _agent_ids as the last completed update_nodes left it
    volume,            \* a job.configuration.volume.Volume
    docker_param,      \* what volume.to_docker_param() returned
    data_type,         \* Ingest.data_type of one ingest model
    tag_call,          \* the last add_data_type_tag call on it and its outcome
    status_call,       \* the last IngestManager.get_status call and what it returned
    dedup_call,        \* the last deduplication of an ingest batch and its result
    scanner,           \* an S3Scanner: _stop_received, _dry_run, _count
    scan_call          \* the last call made on the scanner and what it did

schedVars == <<pc, running, job_types, new_offers, node_offers, queue, job_exes,
               next_offer, outstanding_tasks, round>>
retryVars == <<retry_pc, job_executions, attempts>>
cleanupVars == <<agent_ids, nodes, last>>
lockVars == <<lock, thread, committed>>
volumeVars == <<volume, docker_param>>
ingestVars == <<data_type, tag_call>>
statusVars == <<status_call>>
dedupVars == <<dedup_call>>
scannerVars == <<scanner, scan_call>>

vars == <<pc, running, job_types, new_offers, node_offers, queue, job_exes,
          next_offer, outstanding_tasks, round, retry_pc, job_executions, attempts,
          agent_ids, nodes, last, lock, thread, committed, volume, docker_param,
          data_type, tag_call, status_call, dedup_call, scanner, scan_call>>

EmptyNodeOffers ==
    [offer_ids |-> {}, available |-> ZeroRes, accepted_new |-> <<>>, accepted_running |-> <<>>]

NoJobExe == [status |-> "queued", node |-> 0, task_index |-> 0, outstanding |-> FALSE]

NewRound ==
    [popped |-> {}, launch_calls |-> <<>>, declined |-> {}, calls |-> <<>>,
     paused |-> FALSE, readied |-> {}, running_seen |-> {}, groups |-> <<>>, batch |-> <<>>, result |-> "none",
     started |-> {}, added |-> {}, num_tasks |-> 0, slept |-> FALSE]

\* the threads that call the cleanup manager: the scheduling thread 1 and a
\* driver callback thread 2
Threads == {1, 2}

\* a thread outside the cleanup manager
Outside ==
    [pc |-> "outside", method |-> "none", job_exe |-> 0, node_id |-> 0, agent_id |-> "none",
     task_id |-> 0, status |-> "none", node_list |-> <<>>, i |-> 0, raised |-> "none"]

\* no Volume constructed, nothing returned yet
NoVolume ==
    [container_path |-> "none", mode |-> "none", is_host |-> TRUE, host_path |-> "none",
     name |-> "none", driver |-> "none", driver_opts |-> <<>>]
NoDockerParam == [flag |-> "none", value |-> <<>>]

\* no add_data_type_tag call made yet
NoTagCall == [op |-> "none", tag |-> <<>>, raised |-> "none", before |-> <<>>]

\* None where a datetime is expected
NoTime == [date |-> 0, hour |-> 0]

\* no get_status call made yet
NoStatusCall ==
    [op |-> "none", started |-> NoTime, ended |-> NoTime, use_ingest_time |-> FALSE,
     today |-> 0, ingests |-> {}, returned |-> <<>>]

\* no deduplication done yet
NoDedupCall ==
    [op |-> "none", scan_id |-> 0, new_ingests |-> <<>>, stored |-> {},
     returned |-> <<>>, again |-> FALSE, first |-> <<>>]

\* S3Scanner(): a scanner as its constructor leaves it
S3Scanner == [stop_received |-> FALSE, dry_run |-> FALSE, count |-> 0]

\* no call made on the scanner yet
NoScanCall ==
    [op |-> "none", files |-> 0, raised |-> "none", calls |-> <<>>, count_before |-> 0,
     stopped_before |-> FALSE]

\* no call made on the cleanup manager yet
NoCall ==
    [op |-> "none", node_id |-> 0, agent_id |-> "none", task_id |-> 0, status |-> "none",
     raised |-> "none", returned |-> {}]

Init ==
    /\ pc = "idle"
    /\ running = TRUE
    /\ job_types = [t \in JobTypeIds |-> "absent"]
    /\ new_offers = {}
    /\ node_offers = [n \in Nodes |-> EmptyNodeOffers]
    /\ queue = QueueIds
    /\ job_exes = [e \in QueueIds |-> NoJobExe]
    /\ next_offer = 1
    /\ outstanding_tasks = [e \in QueueIds |-> 0]
    /\ round = NewRound
    /\ retry_pc = "idle"
    /\ job_executions = {}
    /\ attempts = <<>>
    /\ agent_ids = [a \in {} |-> 0]
    /\ nodes = [n \in {} |-> 0]
    /\ last = NoCall
    /\ lock = 0
    /\ thread = [t \in Threads |-> Outside]
    /\ committed = [a \in {} |-> 0]
    /\ volume = NoVolume
    /\ docker_param = NoDockerParam
    /\ data_type = <<>>
    /\ tag_call = NoTagCall
    /\ status_call = NoStatusCall
    /\ dedup_call = NoDedupCall
    /\ scanner = S3Scanner
    /\ scan_call = NoScanCall


\* ----------------------------------------------------- running executions
\* RunningJobExe: a next task exists when the execution is running, its
\* previous task is no longer outstanding and tasks remain.
NextTaskReady(exes, e) ==
    /\ exes[e].status = "running"
    /\ ~exes[e].outstanding
    /\ exes[e].task_index < TasksPerExe

\* RunningJobExe.start_next_task(): the execution after handing out its task.
StartNextTask(x) == [x EXCEPT !.outstanding = TRUE, !.task_index = @ + 1]

\* RunningJobExecutionManager.get_all_job_exes()
GetAllJobExes(exes) == {e \in QueueIds : exes[e].status = "running"}

\* ------------------------------------------------------------ offer manager
\* OfferManager.ready_new_offers(): merge the new buffer into the node slots.
ReadyNewOffers(no, buf) ==
    [n \in Nodes |->
        LET mine == {o \in buf : OfferNode(o) = n} IN
        [no[n] EXCEPT !.offer_ids = @ \cup mine,
                      !.available = Plus(@, SumOfferRes(mine))]]

\* OfferManager.consider_next_task(running_job_exe)
ConsiderNextTask(no, exes, e) ==
    LET n == exes[e].node IN
    IF /\ NextTaskReady(exes, e)
       /\ no[n].offer_ids # {}
       /\ Fits(Required(e), no[n].available)
    THEN [result |-> "ACCEPTED",
          no |-> [no EXCEPT ![n].accepted_running = Append(@, e),
                            ![n].available = Minus(@, Required(e))]]
    ELSE [result |-> "REJECTED", no |-> no]

\* Best fit: largest slack, memory first, then cpu, then the smaller node id.
Prefer(no, n, m) ==
    LET a == no[n].available
        b == no[m].available
    IN \/ a.mem > b.mem
       \/ a.mem = b.mem /\ a.cpus > b.cpus
       \/ a.mem = b.mem /\ a.cpus = b.cpus /\ n <= m

\* OfferManager.consider_new_job_exe(queued_job_exe)
ConsiderNewJobExe(no, q) ==
    LET fit == {n \in Nodes : no[n].offer_ids # {} /\ Fits(Required(q), no[n].available)} IN
    IF fit = {} THEN [result |-> "REJECTED", no |-> no]
    ELSE LET n == CHOOSE x \in fit : \A m \in fit : Prefer(no, x, m) IN
         [result |-> "ACCEPTED",
          no |-> [no EXCEPT ![n].accepted_new = Append(@, q),
                            ![n].available = Minus(@, Required(q))]]

\* OfferManager.pop_offers_with_accepted_job_exes(): the nodes it returns ...
AcceptedGroups(no) ==
    {n \in Nodes : no[n].accepted_new # <<>> \/ no[n].accepted_running # <<>>}

\* ... and the slots it leaves behind.
PopOffersWithAccepted(no) ==
    [n \in Nodes |-> IF n \in AcceptedGroups(no) THEN EmptyNodeOffers ELSE no[n]]

\* OfferManager.pop_all_offers(): every offer id held in a node slot.
AllOfferIds(no) == UNION {no[n].offer_ids : n \in Nodes}

\* ------------------------------------------------------- scheduling thread
\* _consider_running_job_exes: consider_next_task for every running execution.
RECURSIVE ConsiderRunningSeq(_, _, _, _)
ConsiderRunningSeq(es, no, exes, calls) ==
    IF es = <<>> THEN [no |-> no, calls |-> calls]
    ELSE LET e == Head(es)
             r == ConsiderNextTask(no, exes, e)
         IN ConsiderRunningSeq(Tail(es), r.no, exes,
                Append(calls, [op |-> "consider_next_task", id |-> e, result |-> r.result,
                               queued_ahead |-> Len(no[exes[e].node].accepted_new)]))

ConsiderRunningJobExes(no, exes, calls) ==
    ConsiderRunningSeq(SortedSeq(GetAllJobExes(exes)), no, exes, calls)

\* line 109: the queue entry is skipped
SkipQueueAbsentOnly(jt, q) == jt[JobTypeOf(q)] = "absent"

SkipQueue(jt, q) == jt[JobTypeOf(q)] = "absent" \/ jt[JobTypeOf(q)] = "paused"

\* line 115: the per-round cap is reached
CapReachedOffByOne(num) == num > MAX_NEW_JOB_EXES

CapReached(num) == num >= MAX_NEW_JOB_EXES

\* lines 106-116: the loop over Queue.objects.get_queue()
RECURSIVE ConsiderQueue(_, _, _, _, _)
ConsiderQueue(qs, no, jt, num, calls) ==
    IF qs = <<>> THEN [no |-> no, calls |-> calls]
    ELSE LET q == Head(qs) IN
         IF SkipQueue(jt, q) THEN ConsiderQueue(Tail(qs), no, jt, num, calls)
         ELSE LET r == ConsiderNewJobExe(no, q)
                  c == Append(calls, [op |-> "consider_new_job_exe", id |-> q,
                                      result |-> r.result, queued_ahead |-> 0])
              IN IF r.result = "ACCEPTED"
                 THEN IF CapReached(num + 1) THEN [no |-> r.no, calls |-> c]
                      ELSE ConsiderQueue(Tail(qs), r.no, jt, num + 1, c)
                 ELSE ConsiderQueue(Tail(qs), r.no, jt, num, c)

ConsiderNewJobExesIgnoringPause(no, qs, jt, paused, calls) ==
    ConsiderQueue(qs, no, jt, 0, calls)

\* _consider_new_job_exes
ConsiderNewJobExes(no, qs, jt, paused, calls) ==
    IF paused THEN [no |-> no, calls |-> calls]
    ELSE ConsiderQueue(qs, no, jt, 0, calls)

PerformSchedulingNewFirst(no, exes, qs, jt, paused) ==
    LET r == ConsiderNewJobExes(no, qs, jt, paused, <<>>) IN
    ConsiderRunningJobExes(r.no, exes, r.calls)

\* _perform_scheduling, lines 137-138
PerformScheduling(no, exes, qs, jt, paused) ==
    LET r == ConsiderRunningJobExes(no, exes, <<>>) IN
    ConsiderNewJobExes(r.no, qs, jt, paused, r.calls)


\* lines 158-161: the accepted running executions of node n whose
\* start_next_task() hands out a task (the others yield None and are dropped)
StartedRunning(no, exes, n) ==
    SelectSeq(no[n].accepted_running, LAMBDA e : NextTaskReady(exes, e))

\* lines 163-164: the accepted queued executions of the popped groups, each
\* with the node it was accepted on
RECURSIVE GatherQueued(_, _)
GatherQueued(ns, no) ==
    IF ns = <<>> THEN <<>>
    ELSE [i \in 1 .. Len(no[Head(ns)].accepted_new) |->
             [q |-> no[Head(ns)].accepted_new[i], node |-> Head(ns)]]
         \o GatherQueued(Tail(ns), no)

QueuedJobExesToSchedule(no) == GatherQueued(SortedSeq(AcceptedGroups(no)), no)

ScheduledJobExesAnyway(outcome, batch) == batch

\* lines 166-173: the executions _schedule_queued_job_executions returns to
\* the try block; none when it raised OperationalError
ScheduledJobExes(outcome, batch) == IF outcome = "ok" THEN batch ELSE <<>>

ScheduledOn(n, scheduled) ==
    LET mine == SelectSeq(scheduled, LAMBDA b : b.node = n) IN
    [i \in 1 .. Len(mine) |-> mine[i].q]

RECURSIVE Flatten(_, _)
Flatten(ns, f) == IF ns = <<>> THEN <<>> ELSE f[Head(ns)] \o Flatten(Tail(ns), f)

TasksToLaunchShared(n, started, scheduled) ==
    Flatten(SortedSeq(Nodes), started) \o [i \in 1 .. Len(scheduled) |-> scheduled[i].q]

\* lines 155-161 and 171: tasks_to_launch[n]
TasksToLaunch(n, started, scheduled) == started[n] \o ScheduledOn(n, scheduled)

LaunchGroupsWithTasks(groups, tasks) == {n \in groups : tasks[n] # <<>>}

\* lines 177-180: the node groups launchTasks is called for
LaunchGroups(groups, tasks) == groups

DeclinedOfferIdsOnePerNode(no) ==
    {CHOOSE o \in no[n].offer_ids : TRUE : n \in {m \in Nodes : no[m].offer_ids # {}}}

\* lines 83-85: the offer ids declineOffer is called with, given the node
\* slots pop_all_offers() returned
DeclinedOfferIds(no) == UNION {no[n].offer_ids : n \in Nodes}

ShouldDeclineAlways(num_tasks) == TRUE

\* line 81
ShouldDecline(num_tasks) == num_tasks = 0

CountIn(s, e) == Cardinality({i \in 1 .. Len(s) : s[i] = e})

RECURSIVE SumLen(_, _)
SumLen(ns, f) == IF ns = <<>> THEN 0 ELSE Len(f[Head(ns)]) + SumLen(Tail(ns), f)

\* ------------------------------------------------------------------ actions
\* run() line 68 with the flag set, and _perform_scheduling lines 133-138: the
\* first half of a round, up to the admission decisions.
\* BeginRound with the decline loop of run() (lines 83-85) run on the readied
\* offers ahead of the admission decisions
BeginRoundDecliningFirst ==
    /\ pc = "idle"
    /\ running
    /\ \E jt \in JobTypeSnapshots, paused \in BOOLEAN :
         LET ready == ReadyNewOffers(node_offers, new_offers)
             r == PerformScheduling(ready, job_exes, SortedSeq(queue), jt, paused)
         IN /\ job_types' = jt
            /\ node_offers' = r.no
            /\ round' = [NewRound EXCEPT !.calls = r.calls, !.paused = paused,
                                         !.readied = AllOfferIds(ready),
                                         !.declined = AllOfferIds(ready),
                                         !.running_seen = GetAllJobExes(job_exes)]
    /\ new_offers' = {}
    /\ pc' = "schedule"
    /\ UNCHANGED <<running, queue, job_exes, next_offer, outstanding_tasks>>
    /\ UNCHANGED <<retryVars, cleanupVars, lockVars, volumeVars, ingestVars, statusVars, dedupVars, scannerVars>>

BeginRound ==
    /\ pc = "idle"
    /\ running
    /\ \E jt \in JobTypeSnapshots, paused \in BOOLEAN :
         LET ready == ReadyNewOffers(node_offers, new_offers)
             r == PerformScheduling(ready, job_exes, SortedSeq(queue), jt, paused)
         IN /\ job_types' = jt
            /\ node_offers' = r.no
            /\ round' = [NewRound EXCEPT !.calls = r.calls, !.paused = paused,
                                         !.readied = AllOfferIds(ready),
                                         !.running_seen = GetAllJobExes(job_exes)]
    /\ new_offers' = {}
    /\ pc' = "schedule"
    /\ UNCHANGED <<running, queue, job_exes, next_offer, outstanding_tasks>>
    /\ UNCHANGED <<retryVars, cleanupVars, lockVars, volumeVars, ingestVars, statusVars, dedupVars, scannerVars>>

\* The second half of a round: _schedule_accepted_tasks (lines 144-181) and
\* the end of the loop body (lines 81-88). outcome is what
\* _schedule_queued_job_executions does under its retry decorator: "ok" when a
\* call returned, "transient" when OperationalError was raised on every one of
\* its max_tries=5 calls, "fatal" when a call raised another error, which
\* propagates out of run().
FinishRound ==
    /\ pc = "schedule"
    /\ \E outcome \in {"ok", "transient", "fatal"} :
            LET groups == AcceptedGroups(node_offers)
                started == [n \in Nodes |->
                               IF n \in groups THEN StartedRunning(node_offers, job_exes, n)
                               ELSE <<>>]
                startedSet == UNION {Range(started[n]) : n \in Nodes}
                exes1 == [e \in QueueIds |->
                             IF e \in startedSet THEN StartNextTask(job_exes[e]) ELSE job_exes[e]]
                batch == QueuedJobExesToSchedule(node_offers)
                scheduled == ScheduledJobExes(outcome, batch)
                nodeOf == [e \in QueueIds |->
                             IF \E i \in 1 .. Len(scheduled) : scheduled[i].q = e
                             THEN (CHOOSE b \in Range(scheduled) : b.q = e).node ELSE 0]
                addedSet == {scheduled[i].q : i \in 1 .. Len(scheduled)}
                exes2 == [e \in QueueIds |->
                             IF e \in addedSet
                             THEN StartNextTask([status |-> "running", node |-> nodeOf[e],
                                                 task_index |-> 0, outstanding |-> FALSE])
                             ELSE exes1[e]]
                tasks == [n \in Nodes |->
                             IF n \in groups THEN TasksToLaunch(n, started, scheduled) ELSE <<>>]
                lg == SortedSeq(LaunchGroups(groups, tasks))
                lcalls == [i \in 1 .. Len(lg) |->
                              [node |-> lg[i], offer_ids |-> node_offers[lg[i]].offer_ids,
                               tasks |-> tasks[lg[i]]]]
                poppedIds == UNION {node_offers[n].offer_ids : n \in groups}
                left == PopOffersWithAccepted(node_offers)
                num_tasks == SumLen(SortedSeq(groups), tasks)
                sg == SortedSeq(groups)
                done == [round EXCEPT !.popped = poppedIds, !.batch = batch,
                                      !.groups = [i \in 1 .. Len(sg) |->
                                                     [node |-> sg[i],
                                                      offer_ids |-> node_offers[sg[i]].offer_ids]],
                                      !.result = outcome,
                                      !.started = startedSet]
            IN IF outcome = "fatal"
               THEN /\ pc' = "crashed"
                    /\ node_offers' = left
                    /\ job_exes' = exes1
                    /\ round' = done
                    /\ UNCHANGED <<queue, outstanding_tasks>>
               ELSE /\ pc' = "idle"
                    /\ job_exes' = exes2
                    /\ queue' = IF outcome = "ok"
                                THEN queue \ {batch[i].q : i \in 1 .. Len(batch)}
                                ELSE queue
                    /\ outstanding_tasks' = [e \in QueueIds |->
                           outstanding_tasks[e] + CountIn(Flatten(lg, tasks), e)]
                    /\ IF ShouldDecline(num_tasks)
                       THEN /\ node_offers' = [n \in Nodes |-> EmptyNodeOffers]
                            /\ round' = [done EXCEPT !.added = addedSet,
                                                     !.launch_calls = lcalls,
                                                     !.num_tasks = num_tasks,
                                                     !.popped = @ \cup AllOfferIds(left),
                                                     !.declined = DeclinedOfferIds(left),
                                                     !.slept = TRUE]
                       ELSE /\ node_offers' = left
                            /\ round' = [done EXCEPT !.added = addedSet,
                                                     !.launch_calls = lcalls,
                                                     !.num_tasks = num_tasks]
    /\ UNCHANGED <<running, job_types, new_offers, next_offer>>
    /\ UNCHANGED <<retryVars, cleanupVars, lockVars, volumeVars, ingestVars, statusVars, dedupVars, scannerVars>>

\* run() leaving the loop as soon as the flag is cleared, round in progress or not
ExitLoopMidRound ==
    /\ pc \in {"idle", "schedule"}
    /\ ~running
    /\ pc' = "stopped"
    /\ UNCHANGED <<running, job_types, new_offers, node_offers, queue, job_exes, next_offer,
                   outstanding_tasks, round>>
    /\ UNCHANGED <<retryVars, cleanupVars, lockVars, volumeVars, ingestVars, statusVars, dedupVars, scannerVars>>

\* run(), line 68 with the flag cleared, and line 90
ExitLoop ==
    /\ pc = "idle"
    /\ ~running
    /\ pc' = "stopped"
    /\ UNCHANGED <<running, job_types, new_offers, node_offers, queue, job_exes, next_offer,
                   outstanding_tasks, round>>
    /\ UNCHANGED <<retryVars, cleanupVars, lockVars, volumeVars, ingestVars, statusVars, dedupVars, scannerVars>>

\* shutdown()
Shutdown ==
    /\ running
    /\ running' = FALSE
    /\ UNCHANGED <<pc, job_types, new_offers, node_offers, queue, job_exes, next_offer,
                   outstanding_tasks, round>>
    /\ UNCHANGED <<retryVars, cleanupVars, lockVars, volumeVars, ingestVars, statusVars, dedupVars, scannerVars>>

\* driver callback resource_offers -> OfferManager.add_offers
\* a callback that puts the offers straight into the per-node active set
ResourceOffersIntoActiveSet ==
    /\ next_offer <= Len(OfferFeed)
    /\ node_offers' = ReadyNewOffers(node_offers, {next_offer})
    /\ next_offer' = next_offer + 1
    /\ UNCHANGED <<pc, running, job_types, new_offers, queue, job_exes,
                   outstanding_tasks, round>>
    /\ UNCHANGED <<retryVars, cleanupVars, lockVars, volumeVars, ingestVars, statusVars, dedupVars, scannerVars>>

ResourceOffers ==
    /\ next_offer <= Len(OfferFeed)
    /\ new_offers' = new_offers \cup {next_offer}
    /\ next_offer' = next_offer + 1
    /\ UNCHANGED <<pc, running, job_types, node_offers, queue, job_exes,
                   outstanding_tasks, round>>
    /\ UNCHANGED <<retryVars, cleanupVars, lockVars, volumeVars, ingestVars, statusVars, dedupVars, scannerVars>>

\* driver callback status_update with a finished task of execution e
TaskFinished(e) ==
    /\ job_exes[e].status = "running"
    /\ outstanding_tasks[e] > 0
    /\ outstanding_tasks' = [outstanding_tasks EXCEPT ![e] = @ - 1]
    /\ job_exes' = [job_exes EXCEPT
                       ![e].outstanding = FALSE,
                       ![e].status = IF job_exes[e].task_index >= TasksPerExe
                                     THEN "completed" ELSE "running"]
    /\ UNCHANGED <<pc, running, job_types, new_offers, node_offers, queue, next_offer,
                   round>>
    /\ UNCHANGED <<retryVars, cleanupVars, lockVars, volumeVars, ingestVars, statusVars, dedupVars, scannerVars>>

\* the execution fails, is canceled or loses its node: it leaves the manager
\* and whatever task it had is over
ExecutionFailed(e) ==
    /\ job_exes[e].status = "running"
    /\ job_exes' = [job_exes EXCEPT ![e].outstanding = FALSE, ![e].status = "failed"]
    /\ outstanding_tasks' = [outstanding_tasks EXCEPT ![e] = 0]
    /\ UNCHANGED <<pc, running, job_types, new_offers, node_offers, queue, next_offer,
                   round>>
    /\ UNCHANGED <<retryVars, cleanupVars, lockVars, volumeVars, ingestVars, statusVars, dedupVars, scannerVars>>

Next ==
    \/ BeginRound
    \/ FinishRound
    \/ ExitLoop
    \/ Shutdown
    \/ ResourceOffers
    \/ \E e \in QueueIds : TaskFinished(e)
    \/ \E e \in QueueIds : ExecutionFailed(e)

Spec == Init /\ [][Next]_vars

\* The scheduling thread is a started thread: a round in progress goes on to
\* its end as long as the calls it makes return or raise, and the loop
\* condition on line 68 is evaluated once the round is over.
FairSpec == Spec /\ WF_vars(FinishRound) /\ WF_vars(ExitLoop)

\* --------------------------------------------- the loop under a steady load
\* The driver and the queue of a scheduler that stays up: resources that left
\* the offer manager are offered again, and new jobs keep being queued. The
\* model reuses the id of an offer that is held nowhere and the id of an
\* execution that is over.
\* driver callback resource_offers, for resources offered before
OfferAgain(o) ==
    /\ next_offer > Len(OfferFeed)
    /\ o \notin new_offers \cup AllOfferIds(node_offers)
    /\ pc = "idle"
    /\ new_offers' = new_offers \cup {o}
    /\ UNCHANGED <<pc, running, job_types, node_offers, queue, job_exes, next_offer,
                   outstanding_tasks, round>>
    /\ UNCHANGED <<retryVars, cleanupVars, lockVars, volumeVars, ingestVars, statusVars, dedupVars, scannerVars>>

\* a job is queued (Queue.objects.get_queue(), line 107, returns it from then on)
QueueAgain(e) ==
    /\ job_exes[e].status \in {"completed", "failed"}
    /\ e \notin queue
    /\ pc = "idle"
    /\ queue' = queue \cup {e}
    /\ job_exes' = [job_exes EXCEPT ![e] = NoJobExe]
    /\ outstanding_tasks' = [outstanding_tasks EXCEPT ![e] = 0]
    /\ UNCHANGED <<pc, running, job_types, new_offers, node_offers, next_offer, round>>
    /\ UNCHANGED <<retryVars, cleanupVars, lockVars, volumeVars, ingestVars, statusVars, dedupVars, scannerVars>>

NextSteady ==
    \/ Next
    \/ \E o \in Offers : OfferAgain(o)
    \/ \E e \in QueueIds : QueueAgain(e)

\* The scheduler starts with one job in its queue.
InitSteady ==
    /\ pc = "idle"
    /\ running = TRUE
    /\ job_types = [t \in JobTypeIds |-> "absent"]
    /\ new_offers = {}
    /\ node_offers = [n \in Nodes |-> EmptyNodeOffers]
    /\ queue = {1}
    /\ job_exes = [e \in QueueIds |-> NoJobExe]
    /\ next_offer = 1
    /\ outstanding_tasks = [e \in QueueIds |-> 0]
    /\ round = NewRound
    /\ retry_pc = "idle"
    /\ job_executions = {}
    /\ attempts = <<>>
    /\ agent_ids = [a \in {} |-> 0]
    /\ nodes = [n \in {} |-> 0]
    /\ last = NoCall
    /\ lock = 0
    /\ thread = [t \in Threads |-> Outside]
    /\ committed = [a \in {} |-> 0]
    /\ volume = NoVolume
    /\ docker_param = NoDockerParam
    /\ data_type = <<>>
    /\ tag_call = NoTagCall
    /\ status_call = NoStatusCall
    /\ dedup_call = NoDedupCall
    /\ scanner = S3Scanner
    /\ scan_call = NoScanCall

SpecSteady == InitSteady /\ [][NextSteady]_vars

\* A round in progress goes on to its end, and run() leaves its loop once the
\* flag is cleared.
FairSteady == SpecSteady /\ WF_vars(FinishRound) /\ WF_vars(ExitLoop)


\* ------------------------------------- the persistence call and its retries
\* The try block of _schedule_accepted_tasks (lines 166-173) step by step: the
\* call of _schedule_queued_job_executions, each invocation of
\* Queue.objects.schedule_job_executions that the retry_database_query
\* decorator makes, and what becomes of the error the decorator lets out.
\* FinishRound's outcome is the end of these steps: "ok" is "returned",
\* "transient" is "caught", "fatal" is "propagated".

\* @retry_database_query(max_tries=5, ...)
max_tries == 5

\* what one invocation of Queue.objects.schedule_job_executions can do
QueryOutcomes == {"ok", "OperationalError", "Error"}

\* the batches the admission decisions can hand over
Batches == {b \in SUBSET QueueIds : Cardinality(b) <= MAX_NEW_JOB_EXES}

\* retry_database_query: the wrapped function is invoked again after a
\* transient database error while fewer than max_tries invocations were made
RetryAgain(err, tries) == err = "OperationalError" /\ tries < max_tries

\* an except clause that takes every error
CaughtAnyError(err) == TRUE

\* line 172: except OperationalError
Caught(err) == err = "OperationalError"

\* line 168: _schedule_queued_job_executions(queued_job_exes_to_schedule)
CallScheduleQueued ==
    /\ retry_pc = "idle"
    /\ \E b \in Batches : job_executions' = b
    /\ attempts' = <<>>
    /\ retry_pc' = "call"
    /\ UNCHANGED <<schedVars, cleanupVars, lockVars, volumeVars, ingestVars, statusVars, dedupVars, scannerVars>>

\* line 196 under the decorator: one invocation of the query
InvokeQuery(outcome) ==
    /\ retry_pc = "call"
    /\ attempts' = Append(attempts, outcome)
    /\ retry_pc' = IF outcome = "ok" THEN "returned"
                   ELSE IF RetryAgain(outcome, Len(attempts) + 1) THEN "call"
                   ELSE IF Caught(outcome) THEN "caught"
                   ELSE "propagated"
    /\ UNCHANGED <<job_executions, schedVars, cleanupVars, lockVars, volumeVars, ingestVars, statusVars, dedupVars, scannerVars>>

\* lines 169-181 after a return, lines 173-181 after the except clause: the
\* round goes on and the next round comes to line 168 again
ResumeRound ==
    /\ retry_pc \in {"returned", "caught"}
    /\ retry_pc' = "idle"
    /\ job_executions' = {}
    /\ attempts' = <<>>
    /\ UNCHANGED <<schedVars, cleanupVars, lockVars, volumeVars, ingestVars, statusVars, dedupVars, scannerVars>>

NextRetry ==
    \/ CallScheduleQueued
    \/ \E outcome \in QueryOutcomes : InvokeQuery(outcome)
    \/ ResumeRound

SpecRetry == Init /\ [][NextRetry]_vars


\* ----------------------------------------------------------- cleanup manager
\* scheduler/cleanup/manager.py. Every method runs under self._lock from its
\* first statement to its last, so each is one step.

\* Agent ids: an agent id belongs to one host; a node that registers again
\* comes back under another agent id of its own.
AgentPool ==
    [n \in Nodes |-> IF n = 1 THEN {"agent_1a", "agent_1b"} ELSE {"agent_2a"}]
AgentIds == UNION {AgentPool[n] : n \in Nodes}

\* The node lists update_nodes is called with: any nodes, each under one of
\* its agent ids, in the order of their ids.
NodeLists ==
    {[i \in 1 .. Len(SortedSeq(S)) |->
         [id |-> SortedSeq(S)[i], agent_id |-> f[SortedSeq(S)[i]]]] :
       <<S, f>> \in {sf \in UNION {{<<T, g>> : g \in [T -> AgentIds]} : T \in SUBSET Nodes} :
                       \A n \in sf[1] : sf[2][n] \in AgentPool[n]}}

\* Task ids are unique, so a task id either is the id of the cleanup task now
\* in flight on some node or matches no task in flight. Id n stands for the
\* task in flight on node n, StaleTask for an earlier task.
StaleTask == 0
TaskIds == Nodes \cup {StaleTask}

\* The callbacks the driver can deliver: a callback about the task in flight
\* on node n comes from one of the agents of n.
Callbacks(nds) ==
    {c \in [agent_id : AgentIds, task_id : TaskIds] :
        c.task_id # StaleTask =>
            /\ c.task_id \in DOMAIN nds
            /\ nds[c.task_id].current_task # <<>>
            /\ c.agent_id \in AgentPool[c.task_id]}
TaskStatuses == {"RUNNING", "FINISHED", "FAILED", "LOST"}

\* The executions that finished on the nodes
JobExeIds == {1, 2, 3}

\* NodeCleanup(node): the agent id of the node it was built with, the
\* executions waiting for cleanup, oldest first, and the executions of the
\* cleanup task in flight (<<>> when there is none)
NodeCleanup(node) == [agent_id |-> node.agent_id, queue |-> <<>>, current_task |-> <<>>]

\* how many executions one cleanup task takes at most
CleanupBatchCap == 2

\* NodeCleanup.add_job_execution(job_exe)
\* a node that appends whatever it is handed
NodeAddJobExecutionAppending(nc, e) == [nc EXCEPT !.queue = Append(@, e)]

Held(nc) == Range(nc.queue) \cup Range(nc.current_task)

\* the node keeps its executions by id: one it already holds is not added again
NodeAddJobExecution(nc, e) ==
    IF e \in Held(nc) THEN nc ELSE [nc EXCEPT !.queue = Append(@, e)]

\* a node that hands out a task whenever executions wait
NodeHasNextTaskIgnoringCurrent(nc) == nc.queue # <<>>

\* NodeCleanup.get_next_task(): whether a task is handed out
NodeHasNextTask(nc) == nc.current_task = <<>> /\ nc.queue # <<>>

\* NodeCleanup.get_next_task(): the node after the call and the task (<<>> for None)
NodeGetNextTask(nc) ==
    IF NodeHasNextTask(nc)
    THEN LET k == IF Len(nc.queue) < CleanupBatchCap THEN Len(nc.queue) ELSE CleanupBatchCap
         IN [node |-> [nc EXCEPT !.queue = SubSeq(nc.queue, k + 1, Len(nc.queue)),
                                 !.current_task = SubSeq(nc.queue, 1, k)],
             task |-> SubSeq(nc.queue, 1, k)]
    ELSE [node |-> nc, task |-> <<>>]

\* a node that forgets the executions of a failed cleanup task
NodeAfterStatusDroppingOnFailure(nc, status) ==
    IF status = "RUNNING" THEN nc ELSE [nc EXCEPT !.current_task = <<>>]

\* NodeCleanup: the in-flight task reached the given status
NodeAfterStatus(nc, status) ==
    IF status = "RUNNING" THEN nc
    ELSE IF status = "FINISHED" THEN [nc EXCEPT !.current_task = <<>>]
    ELSE [nc EXCEPT !.queue = nc.current_task \o nc.queue, !.current_task = <<>>]

\* NodeCleanup.handle_task_update(task_update) on node n
NodeHandleTaskUpdate(nc, n, task_id, status) ==
    IF nc.current_task = <<>> \/ task_id # n THEN nc ELSE NodeAfterStatus(nc, status)

\* NodeCleanup.handle_task_timeout(task) on node n
NodeHandleTaskTimeout(nc, n, task_id) ==
    IF nc.current_task = <<>> \/ task_id # n THEN nc ELSE NodeAfterStatus(nc, "FAILED")

\* the executions a node holds for cleanup
\* lines 27-28 of add_job_execution, for an execution that is handed over once
AddJobExecution(e, n) ==
    /\ \A k \in DOMAIN nodes : e \notin Held(nodes[k])
    /\ IF n \in DOMAIN nodes
       THEN /\ nodes' = [nodes EXCEPT ![n] = NodeAddJobExecution(@, e)]
            /\ last' = [NoCall EXCEPT !.op = "add_job_execution", !.node_id = n]
       ELSE /\ nodes' = nodes
            /\ last' = [NoCall EXCEPT !.op = "add_job_execution", !.node_id = n,
                                      !.raised = "KeyError"]
    /\ UNCHANGED <<agent_ids, schedVars, retryVars, lockVars, volumeVars, ingestVars, statusVars, dedupVars, scannerVars>>

\* lines 27-28 of add_job_execution, called again for an execution a node
\* still holds: job_exe.node_id is the node it was handed to before
AddJobExecutionAgain(e) ==
    \E n \in DOMAIN nodes :
       /\ e \in Held(nodes[n])
       /\ nodes' = [nodes EXCEPT ![n] = NodeAddJobExecution(@, e)]
       /\ last' = [NoCall EXCEPT !.op = "add_job_execution", !.node_id = n]
       /\ UNCHANGED <<agent_ids, schedVars, retryVars, lockVars, volumeVars, ingestVars, statusVars, dedupVars, scannerVars>>

\* get_next_tasks asking only the nodes an agent id leads to
GetNextTasksOfMappedNodes ==
    LET mapped == {agent_ids[a] : a \in DOMAIN agent_ids} IN
    /\ nodes' = [n \in DOMAIN nodes |->
                    IF n \in mapped THEN NodeGetNextTask(nodes[n]).node ELSE nodes[n]]
    /\ last' = [NoCall EXCEPT
                  !.op = "get_next_tasks",
                  !.returned = {[node_id |-> n, job_exes |-> NodeGetNextTask(nodes[n]).task] :
                                  n \in {k \in DOMAIN nodes \cap mapped :
                                            NodeGetNextTask(nodes[k]).task # <<>>}}]
    /\ UNCHANGED <<agent_ids, schedVars, retryVars, lockVars, volumeVars, ingestVars, statusVars, dedupVars, scannerVars>>

\* lines 37-43 of get_next_tasks
GetNextTasks ==
    /\ nodes' = [n \in DOMAIN nodes |-> NodeGetNextTask(nodes[n]).node]
    /\ last' = [NoCall EXCEPT
                  !.op = "get_next_tasks",
                  !.returned = {[node_id |-> n, job_exes |-> NodeGetNextTask(nodes[n]).task] :
                                  n \in {k \in DOMAIN nodes : NodeGetNextTask(nodes[k]).task # <<>>}}]
    /\ UNCHANGED <<agent_ids, schedVars, retryVars, lockVars, volumeVars, ingestVars, statusVars, dedupVars, scannerVars>>

\* a lookup that falls back on the node the agent id belongs to
DispatchToOwner(aids, agent_id) ==
    IF agent_id \in DOMAIN aids THEN aids[agent_id]
    ELSE IF \E n \in Nodes : agent_id \in AgentPool[n]
         THEN CHOOSE n \in Nodes : agent_id \in AgentPool[n] ELSE 0

\* lines 53-55 and 66-68: the node a callback is passed on to, 0 when the
\* agent id is not in _agent_ids and the method returns
Dispatch(aids, agent_id) == IF agent_id \in DOMAIN aids THEN aids[agent_id] ELSE 0

\* lines 52-56 of handle_task_timeout
HandleTaskTimeout(agent_id, task_id) ==
    LET node_id == Dispatch(agent_ids, agent_id) IN
    /\ [agent_id |-> agent_id, task_id |-> task_id] \in Callbacks(nodes)
    /\ IF node_id \in DOMAIN nodes
       THEN nodes' = [nodes EXCEPT ![node_id] = NodeHandleTaskTimeout(@, node_id, task_id)]
       ELSE nodes' = nodes
    /\ last' = [NoCall EXCEPT !.op = "handle_task_timeout", !.agent_id = agent_id,
                              !.task_id = task_id, !.node_id = node_id,
                              !.raised = IF node_id # 0 /\ node_id \notin DOMAIN nodes
                                         THEN "KeyError" ELSE "none"]
    /\ UNCHANGED <<agent_ids, schedVars, retryVars, lockVars, volumeVars, ingestVars, statusVars, dedupVars, scannerVars>>

\* lines 65-69 of handle_task_update
HandleTaskUpdate(agent_id, task_id, status) ==
    LET node_id == Dispatch(agent_ids, agent_id) IN
    /\ [agent_id |-> agent_id, task_id |-> task_id] \in Callbacks(nodes)
    /\ IF node_id \in DOMAIN nodes
       THEN nodes' = [nodes EXCEPT
                         ![node_id] = NodeHandleTaskUpdate(@, node_id, task_id, status)]
       ELSE nodes' = nodes
    /\ last' = [NoCall EXCEPT !.op = "handle_task_update", !.agent_id = agent_id,
                              !.task_id = task_id, !.status = status, !.node_id = node_id,
                              !.raised = IF node_id # 0 /\ node_id \notin DOMAIN nodes
                                         THEN "KeyError" ELSE "none"]
    /\ UNCHANGED <<agent_ids, schedVars, retryVars, lockVars, volumeVars, ingestVars, statusVars, dedupVars, scannerVars>>

\* update_nodes without line 79
KeepAgentIds(aids) == aids

\* line 79: self._agent_ids = {}
ResetAgentIds(aids) == [a \in {} |-> 0]

\* update_nodes without lines 82-85
WithoutNodeCleanup(nds, node) == nds

\* update_nodes without the test on line 82
WithFreshNodeCleanup(nds, node) == (node.id :> NodeCleanup(node)) @@ nds

\* lines 82-85: a node id seen for the first time gets its NodeCleanup
WithNodeCleanup(nds, node) ==
    IF node.id \notin DOMAIN nds THEN (node.id :> NodeCleanup(node)) @@ nds ELSE nds

\* lines 81-88: the loop over the node list
RECURSIVE UpdateNodesLoop(_, _, _)
UpdateNodesLoop(node_list, aids, nds) ==
    IF node_list = <<>> THEN [agent_ids |-> aids, nodes |-> nds]
    ELSE LET node == Head(node_list)
         IN UpdateNodesLoop(Tail(node_list),
                            (node.agent_id :> node.id) @@ aids,
                            WithNodeCleanup(nds, node))

\* lines 78-88 of update_nodes
UpdateNodes(node_list) ==
    LET r == UpdateNodesLoop(node_list, ResetAgentIds(agent_ids), nodes) IN
    /\ agent_ids' = r.agent_ids
    /\ nodes' = r.nodes
    /\ last' = [NoCall EXCEPT !.op = "update_nodes"]
    /\ UNCHANGED <<schedVars, retryVars, lockVars, volumeVars, ingestVars, statusVars, dedupVars, scannerVars>>

NextCleanup ==
    \/ \E e \in JobExeIds, n \in Nodes : AddJobExecution(e, n)
    \/ GetNextTasks
    \/ \E a \in AgentIds, t \in TaskIds : HandleTaskTimeout(a, t)
    \/ \E a \in AgentIds, t \in TaskIds, s \in TaskStatuses : HandleTaskUpdate(a, t, s)
    \/ \E node_list \in NodeLists : UpdateNodes(node_list)

SpecCleanup == Init /\ [][NextCleanup]_vars

\* the manager with callers that may hand the same execution over twice
NextCleanupRepeats ==
    \/ NextCleanup
    \/ \E e \in JobExeIds : AddJobExecutionAgain(e)

SpecCleanupRepeats == Init /\ [][NextCleanupRepeats]_vars


\* ------------------------------------- cleanup manager, statement by statement
\* The same methods with one step per statement and the lock as a variable:
\* thread 1 is the scheduling thread (update_nodes, get_next_tasks), thread 2
\* a driver callback thread (handle_task_update, handle_task_timeout,
\* add_job_execution).

\* a lock that lets every thread in
LockFreeAlways(l) == TRUE

\* with self._lock (lines 27, 38, 52, 65, 78): the lock can be taken
LockFree(l) == l = 0

\* the calls a thread can make, as the thread's record when it enters
Calls(t) ==
    IF t = 1
    THEN {[Outside EXCEPT !.pc = "acquire", !.method = "update_nodes", !.node_list = nl] :
             nl \in NodeLists}
         \cup {[Outside EXCEPT !.pc = "acquire", !.method = "get_next_tasks"]}
    ELSE {[Outside EXCEPT !.pc = "acquire", !.method = "handle_task_update",
                          !.agent_id = c.agent_id, !.task_id = c.task_id, !.status = s] :
             c \in Callbacks(nodes), s \in {"FINISHED", "FAILED"}}
         \cup {[Outside EXCEPT !.pc = "acquire", !.method = "handle_task_timeout",
                               !.agent_id = c.agent_id, !.task_id = c.task_id] :
                 c \in Callbacks(nodes)}
         \cup {[Outside EXCEPT !.pc = "acquire", !.method = "add_job_execution",
                               !.job_exe = e, !.node_id = n] :
                 e \in {x \in JobExeIds : \A k \in DOMAIN nodes : x \notin Held(nodes[k])},
                 n \in Nodes}

\* the thread is between the with statement and the end of the method
InBody(t) == thread[t].pc \in {"body", "loop", "lookup", "dispatch", "release"}

\* a thread calls a method of the manager
Enter(t) ==
    /\ thread[t].pc = "outside"
    /\ \E c \in Calls(t) : thread' = [thread EXCEPT ![t] = c]
    /\ UNCHANGED <<lock, committed, cleanupVars, schedVars, retryVars, volumeVars, ingestVars, statusVars, dedupVars, scannerVars>>

\* with self._lock
Acquire(t) ==
    /\ thread[t].pc = "acquire"
    /\ LockFree(lock)
    /\ lock' = t
    /\ thread' = [thread EXCEPT ![t].pc = "body"]
    /\ UNCHANGED <<committed, cleanupVars, schedVars, retryVars, volumeVars, ingestVars, statusVars, dedupVars, scannerVars>>

\* line 28
StepAddJobExecution(t) ==
    LET n == thread[t].node_id IN
    /\ thread[t].pc = "body"
    /\ thread[t].method = "add_job_execution"
    /\ IF n \in DOMAIN nodes
       THEN /\ nodes' = [nodes EXCEPT ![n] = NodeAddJobExecution(@, thread[t].job_exe)]
            /\ thread' = [thread EXCEPT ![t].pc = "release"]
       ELSE /\ nodes' = nodes
            /\ thread' = [thread EXCEPT ![t].pc = "release", ![t].raised = "KeyError"]
    /\ UNCHANGED <<lock, committed, agent_ids, last, schedVars, retryVars, volumeVars, ingestVars, statusVars, dedupVars, scannerVars>>

\* lines 39-42, one iteration per step, the nodes in the order of their ids
StepGetNextTask(t) ==
    LET ids == SortedSeq(DOMAIN nodes)
        i == thread[t].i + 1
    IN /\ thread[t].pc = "body"
       /\ thread[t].method = "get_next_tasks"
       /\ IF i > Len(ids)
          THEN /\ thread' = [thread EXCEPT ![t].pc = "release"]
               /\ nodes' = nodes
          ELSE /\ thread' = [thread EXCEPT ![t].i = i]
               /\ nodes' = [nodes EXCEPT ![ids[i]] = NodeGetNextTask(@).node]
       /\ UNCHANGED <<lock, committed, agent_ids, last, schedVars, retryVars, volumeVars, ingestVars, statusVars, dedupVars, scannerVars>>

\* line 79
StepResetAgentIds(t) ==
    /\ thread[t].pc = "body"
    /\ thread[t].method = "update_nodes"
    /\ agent_ids' = ResetAgentIds(agent_ids)
    /\ thread' = [thread EXCEPT ![t].pc = "loop"]
    /\ UNCHANGED <<lock, committed, nodes, last, schedVars, retryVars, volumeVars, ingestVars, statusVars, dedupVars, scannerVars>>

\* lines 81-88, one iteration per step
StepUpdateNode(t) ==
    LET i == thread[t].i + 1 IN
    /\ thread[t].pc = "loop"
    /\ IF i > Len(thread[t].node_list)
       THEN /\ thread' = [thread EXCEPT ![t].pc = "release"]
            /\ UNCHANGED <<agent_ids, nodes>>
       ELSE LET node == thread[t].node_list[i] IN
            /\ thread' = [thread EXCEPT ![t].i = i]
            /\ nodes' = WithNodeCleanup(nodes, node)
            /\ agent_ids' = (node.agent_id :> node.id) @@ agent_ids
    /\ UNCHANGED <<lock, committed, last, schedVars, retryVars, volumeVars, ingestVars, statusVars, dedupVars, scannerVars>>

\* lines 53-54 and 66-67
StepCheckAgent(t) ==
    /\ thread[t].pc = "body"
    /\ thread[t].method \in {"handle_task_update", "handle_task_timeout"}
    /\ thread' = [thread EXCEPT
                     ![t].pc = IF thread[t].agent_id \notin DOMAIN agent_ids
                               THEN "release" ELSE "lookup"]
    /\ UNCHANGED <<lock, committed, cleanupVars, schedVars, retryVars, volumeVars, ingestVars, statusVars, dedupVars, scannerVars>>

\* lines 55 and 68
StepLookup(t) ==
    /\ thread[t].pc = "lookup"
    /\ thread' = [thread EXCEPT ![t] =
                     IF thread[t].agent_id \in DOMAIN agent_ids
                     THEN [@ EXCEPT !.pc = "dispatch", !.node_id = agent_ids[thread[t].agent_id]]
                     ELSE [@ EXCEPT !.pc = "release", !.raised = "KeyError"]]
    /\ UNCHANGED <<lock, committed, cleanupVars, schedVars, retryVars, volumeVars, ingestVars, statusVars, dedupVars, scannerVars>>

\* lines 56 and 69
StepDispatch(t) ==
    LET n == thread[t].node_id IN
    /\ thread[t].pc = "dispatch"
    /\ nodes' = [nodes EXCEPT ![n] =
                    IF thread[t].method = "handle_task_update"
                    THEN NodeHandleTaskUpdate(@, n, thread[t].task_id, thread[t].status)
                    ELSE NodeHandleTaskTimeout(@, n, thread[t].task_id)]
    /\ thread' = [thread EXCEPT ![t].pc = "release"]
    /\ UNCHANGED <<lock, committed, agent_ids, last, schedVars, retryVars, volumeVars, ingestVars, statusVars, dedupVars, scannerVars>>

\* the end of the with block: the lock is released, the method returns or
\* lets its error out
Release(t) ==
    /\ thread[t].pc = "release"
    /\ lock' = 0
    /\ committed' = IF thread[t].method = "update_nodes" THEN agent_ids ELSE committed
    /\ thread' = [thread EXCEPT ![t] = Outside]
    /\ UNCHANGED <<cleanupVars, schedVars, retryVars, volumeVars, ingestVars, statusVars, dedupVars, scannerVars>>

NextLock ==
    \E t \in Threads :
        \/ Enter(t)
        \/ Acquire(t)
        \/ StepAddJobExecution(t)
        \/ StepGetNextTask(t)
        \/ StepResetAgentIds(t)
        \/ StepUpdateNode(t)
        \/ StepCheckAgent(t)
        \/ StepLookup(t)
        \/ StepDispatch(t)
        \/ Release(t)

SpecLock == Init /\ [][NextLock]_vars


\* ------------------------------------------- job/configuration/volume.py
MaxOpts == 2

MODE_RO == "ro"
MODE_RW == "rw"

\* Python's None, and what '%s' makes of a value
None == "<None>"
Str(x) == IF x = None THEN "None" ELSE x

\* truth value of a string or None in an if
Truthy(x) == x # None /\ x # ""

\* A string is the sequence of its pieces. template % args: every %s of the
\* template is replaced by the next argument, the other pieces are kept.
RECURSIVE Format(_, _)
Format(template, args) ==
    IF template = <<>> THEN <<>>
    ELSE IF Head(template) = "%s"
         THEN Head(args) \o Format(Tail(template), Tail(args))
         ELSE <<Head(template)>> \o Format(Tail(template), args)

\* sep.join(strings)
RECURSIVE Join(_, _)
Join(sep, strings) ==
    IF strings = <<>> THEN <<>>
    ELSE IF Len(strings) = 1 THEN Head(strings)
         ELSE Head(strings) \o sep \o Join(sep, Tail(strings))

OptKeys == {"o", "device", "type"}
OptValues == {"bind"}

\* a dict as the sequence of its items in insertion order, keys distinct
Dicts ==
    {d \in UNION {[1 .. n -> [k : OptKeys, v : OptValues]] : n \in 0 .. MaxOpts} :
        \A i, j \in DOMAIN d : i # j => d[i].k # d[j].k}

\* dict.iteritems(): the items in the order of the hash table, which is any
\* order of the items as far as the order of insertion goes
IterItems(d) ==
    {[i \in DOMAIN d |-> d[p[i]]] : p \in Permutations(DOMAIN d)}

Volumes ==
    [container_path : {"/data"}, mode : {MODE_RO, MODE_RW}, is_host : BOOLEAN,
     host_path : {None, "/host"}, name : {None, "vol"},
     driver : {None, "", "nfs"}, driver_opts : Dicts]

\* line 56
DriverParam(driver) == Format(<<"--driver ", "%s">>, <<(<<Str(driver)>>)>>)
\* line 59
OptParam(item) == Format(<<"--opt ", "%s", "=", "%s">>, <<(<<item.k>>), (<<item.v>>)>>)

\* lines 54-59: the list driver_params, for one walk of the options
DriverParams(v, items) ==
    (IF Truthy(v.driver) THEN <<DriverParam(v.driver)>> ELSE <<>>)
    \o (IF v.driver_opts # <<>> THEN [i \in DOMAIN items |-> OptParam(items[i])] ELSE <<>>)

\* lines 49-63
VolumeName(v, items) ==
    IF v.is_host THEN <<Str(v.host_path)>>
    ELSE LET driver_params == DriverParams(v, items) IN
         IF driver_params # <<>>
         THEN Format(<<"$(docker volume create --name ", "%s", " ", "%s", ")">>,
                     <<(<<Str(v.name)>>), Join(<<" ">>, driver_params)>>)
         ELSE Format(<<"$(docker volume create --name ", "%s", ")">>, <<(<<Str(v.name)>>)>>)

\* a parameter value with the mode ahead of the container path
VolumeParamModeFirst(volume_name, v) ==
    Format(<<"%s", ":", "%s", ":", "%s">>,
           <<volume_name, (<<Str(v.mode)>>), (<<Str(v.container_path)>>)>>)

\* line 65
VolumeParam(volume_name, v) ==
    Format(<<"%s", ":", "%s", ":", "%s">>,
           <<volume_name, (<<Str(v.container_path)>>), (<<Str(v.mode)>>)>>)

\* Volume.__init__, lines 33-39
NewVolume ==
    /\ \E v \in Volumes : volume' = v
    /\ docker_param' = NoDockerParam
    /\ UNCHANGED <<schedVars, retryVars, cleanupVars, lockVars, ingestVars, statusVars, dedupVars, scannerVars>>

\* Volume.to_docker_param, lines 49-66
ToDockerParam ==
    /\ volume # NoVolume
    /\ \E items \in IterItems(volume.driver_opts) :
          docker_param' = [flag |-> "volume",
                           value |-> VolumeParam(VolumeName(volume, items), volume)]
    /\ UNCHANGED <<volume, schedVars, retryVars, cleanupVars, lockVars, ingestVars, statusVars, dedupVars, scannerVars>>

NextVolume == NewVolume \/ ToDockerParam

SpecVolume == Init /\ [][NextVolume]_vars

\* ------------------------------------------------- ingest/models.py, tags
MaxTagLen == 2
MaxDataTypeLen == 4

\* the characters of the strings tried: one of the class [A-Za-z0-9_ ], the
\* separator and one more outside the class
Chars == {"a", ",", "-"}
\* members of the class [A-Za-z0-9_ ]
TagClass == {"a", "Z", "0", "_", " "}

\* strings of up to n characters
Strings(n) == UNION {[1 .. k -> Chars] : k \in 0 .. n}

\* a pattern that is content with a valid first character
MatchFirstChar(tag) == tag # <<>> /\ tag[1] \in TagClass

\* VALID_TAG_PATTERN.match(tag): one or more characters, all of the class
Match(tag) == tag # <<>> /\ \A i \in DOMAIN tag : tag[i] \in TagClass

\* string.split(',')
RECURSIVE Split(_)
Split(str) ==
    IF \A i \in DOMAIN str : str[i] # ","
    THEN <<str>>
    ELSE LET i == CHOOSE j \in DOMAIN str :
                     str[j] = "," /\ \A k \in 1 .. j - 1 : str[k] # ","
         IN <<SubSeq(str, 1, i - 1)>> \o Split(SubSeq(str, i + 1, Len(str)))

\* get_data_type_tags, lines 411-415; <<>> is the blank data_type (None or '')
GetDataTypeTags(dt) == IF dt # <<>> THEN Range(Split(dt)) ELSE {}

\* the orders in which a set can be walked
Walks(S) ==
    {w \in [1 .. Cardinality(S) -> S] : \A i, j \in DOMAIN w : i # j => w[i] # w[j]}

\* tags joined by a blank
SetDataTypeTagsBlankJoined(walk) == Join(<<" ">>, walk)

\* _set_data_type_tags, line 424, for one walk of the set
SetDataTypeTags(walk) == Join(<<",">>, walk)

\* an ingest model loaded with whatever data_type string it was stored with,
\* before any call on it
NewIngest ==
    /\ tag_call = NoTagCall
    /\ \E dt \in Strings(MaxTagLen + 1) : data_type' = dt
    /\ tag_call' = NoTagCall
    /\ UNCHANGED <<schedVars, retryVars, cleanupVars, lockVars, volumeVars, statusVars, dedupVars, scannerVars>>

\* add_data_type_tag, lines 398-403
AddDataTypeTag(tag) ==
    /\ Len(data_type) <= MaxDataTypeLen
    /\ IF ~Match(tag)
       THEN /\ tag_call' = [op |-> "add_data_type_tag", tag |-> tag,
                            raised |-> "InvalidDataTypeTag", before |-> data_type]
            /\ data_type' = data_type
       ELSE /\ \E walk \in Walks(GetDataTypeTags(data_type) \cup {tag}) :
                  data_type' = SetDataTypeTags(walk)
            /\ tag_call' = [op |-> "add_data_type_tag", tag |-> tag,
                            raised |-> "none", before |-> data_type]
    /\ UNCHANGED <<schedVars, retryVars, cleanupVars, lockVars, volumeVars, statusVars, dedupVars, scannerVars>>

NextTags ==
    \/ NewIngest
    \/ \E tag \in Strings(MaxTagLen) : AddDataTypeTag(tag)

SpecTags == Init /\ [][NextTags]_vars

\* ---------------------------------------- ingest/models.py, status rollup
MaxIngests == 1

\* A date is its ordinal in a short stretch of the calendar that runs over the
\* end of a month; a datetime is a date and an hour of the day.
Calendar ==
    <<[year |-> 2016, month |-> 2, day |-> 28], [year |-> 2016, month |-> 2, day |-> 29],
      [year |-> 2016, month |-> 3, day |-> 1]>>
Dates == DOMAIN Calendar
HoursOfDay == 0 .. 23
QueryTimes == [date : Dates, hour : {0, 13}]
Earlier == [date |-> 1, hour |-> 13]
Later == [date |-> 3, hour |-> 0]

\* a <= b on datetimes
TimeLeq(a, b) == a.date < b.date \/ (a.date = b.date /\ a.hour <= b.hour)

\* strike processes in the database; strike 0 on an ingest is no strike
Strikes == {1, 2}
FileSize == 5

\* rows of the ingest table
StatusIngests ==
    [strike : {0, 1}, status : {"INGESTED", "QUEUED"},
     data_started : {NoTime, Earlier, Later}, data_ended : {NoTime, Later},
     ingest_ended : {NoTime, Earlier}, file_size : {FileSize}]

\* tables of up to n rows
RECURSIVE TablesUpTo(_)
TablesUpTo(n) ==
    IF n = 0 THEN {{}}
    ELSE LET smaller == TablesUpTo(n - 1)
         IN smaller \cup {t \cup {g} : t \in smaller, g \in StatusIngests}

IngestTables == TablesUpTo(MaxIngests)

\* IngestCounts(time), lines 35-38
IngestCounts(time) == [time |-> time, files |-> 0, size |-> 0]

\* IngestStatus(strike), lines 56-61
IngestStatus(strike) ==
    [strike |-> strike, most_recent |-> NoTime, files |-> 0, size |-> 0, values |-> <<>>]

\* datetime.datetime(dated.year, dated.month, dated.day, hour, tzinfo=utc)
TimeSlot(date, hour) ==
    <<Calendar[date].year, Calendar[date].month, Calendar[date].day, hour>>

\* lines 174-189: the query of get_status
StatusQuery(table, started, ended, use_ingest_time) ==
    {g \in table :
        /\ g.status = "INGESTED"
        /\ started # NoTime =>
              IF use_ingest_time
              THEN g.ingest_ended # NoTime /\ TimeLeq(started, g.ingest_ended)
              ELSE g.data_ended # NoTime /\ TimeLeq(started, g.data_ended)
        /\ ended # NoTime =>
              IF use_ingest_time
              THEN g.ingest_ended # NoTime /\ TimeLeq(g.ingest_ended, ended)
              ELSE g.data_started # NoTime /\ TimeLeq(g.data_started, ended)}

\* line 223
Dated(g, use_ingest_time) == IF use_ingest_time THEN g.ingest_ended ELSE g.data_started

\* _update_status, lines 245-260: st is [status, slots] of one strike
UpdateStatus(st, g, dated) ==
    LET time_slot == TimeSlot(dated.date, dated.hour)
        slots == IF time_slot \in DOMAIN st.slots
                 THEN st.slots
                 ELSE [ts \in DOMAIN st.slots \cup {time_slot} |->
                          IF ts = time_slot THEN IngestCounts(time_slot) ELSE st.slots[ts]]
    IN [status |-> [st.status EXCEPT
                       !.files = @ + 1,
                       !.size = @ + g.file_size,
                       !.most_recent = IF @ = NoTime \/ ~TimeLeq(dated, @) THEN dated ELSE @],
        slots |-> [slots EXCEPT ![time_slot].files = @ + 1,
                                ![time_slot].size = @ + g.file_size]]

\* _group_by_time, lines 209-229, over the rows still to be walked
RECURSIVE GroupByTime(_, _, _)
GroupByTime(rows, use_ingest_time, maps) ==
    IF rows = {} THEN maps
    ELSE LET g == CHOOSE r \in rows :
                     \A q \in rows : Dated(r, use_ingest_time) = Dated(q, use_ingest_time)
                                     \/ Dated(q, use_ingest_time) = NoTime
                                     \/ ( /\ Dated(r, use_ingest_time) # NoTime
                                          /\ TimeLeq(Dated(r, use_ingest_time),
                                                     Dated(q, use_ingest_time)) )
             dated == Dated(g, use_ingest_time)
             rest == rows \ {g}
         IN IF g.strike \notin DOMAIN maps
            THEN GroupByTime(rest, use_ingest_time, maps)
            ELSE IF dated # NoTime
                 THEN GroupByTime(rest, use_ingest_time,
                                  [maps EXCEPT ![g.strike] = UpdateStatus(@, g, dated)])
                 ELSE GroupByTime(rest, use_ingest_time, maps)

\* a fill loop that stops a day short
DaysToFillWithoutLast(started, ended) == ended.date - started.date

\* lines 285-286: the days the fill loop walks
DaysToFill(started, ended) == (ended.date - started.date) + 1

\* _fill_status, lines 281-293
FillStatus(st, started, ended, today) ==
    LET from == IF started # NoTime THEN started ELSE [date |-> today, hour |-> 0]
        to == IF ended # NoTime THEN ended ELSE [date |-> today, hour |-> 23]
        days == DaysToFill(from, to)
        n == IF days > 0 THEN 24 * days ELSE 0
    IN [st.status EXCEPT !.values =
           [i \in 1 .. n |->
               LET day == (i - 1) \div 24
                   hour == (i - 1) % 24
                   time_slot == TimeSlot(from.date + day, hour)
               IN IF time_slot \in DOMAIN st.slots
                  THEN st.slots[time_slot]
                  ELSE IngestCounts(time_slot)]]

\* get_status, lines 171-195: the statuses it returns, by strike. The manager
\* keeps nothing from one call to the next, so one call per behaviour shows
\* all there is.
GetStatus ==
    /\ status_call = NoStatusCall
    /\ \E table \in IngestTables, started, ended \in QueryTimes \cup {NoTime},
          use_ingest_time \in BOOLEAN :
          \E today \in IF started = NoTime \/ ended = NoTime THEN Dates ELSE {1} :
             LET ingests == StatusQuery(table, started, ended, use_ingest_time)
                 empty == [k \in Strikes |->
                              [status |-> IngestStatus(k), slots |-> [ts \in {} |-> 0]]]
             IN \E groups \in {GroupByTime(ingests, use_ingest_time, empty)} :
                status_call' =
                   [op |-> "get_status", started |-> started, ended |-> ended,
                    use_ingest_time |-> use_ingest_time,
                    today |-> IF started = NoTime \/ ended = NoTime THEN today ELSE 0,
                    ingests |-> table,
                    returned |-> [k \in Strikes |->
                                     FillStatus(groups[k], started, ended, today)]]
    /\ UNCHANGED <<schedVars, retryVars, cleanupVars, lockVars, volumeVars, ingestVars,
                   dedupVars, scannerVars>>

NextStatus == GetStatus

SpecStatus == Init /\ [][NextStatus]_vars

\* -------------------------------------------- ingest batches of a scan
MaxBatch == 3

FileNames == {"test1", "test2", "test3"}
ScanIds == {1, 2}

\* rows of the ingest table that scans made
StoredIngests == [scan_id : ScanIds, file_name : FileNames]

\* a batch of new ingest models, told apart by their place in the first batch
NewIngestLists ==
    UNION {{[i \in 1 .. n |-> [id |-> i, file_name |-> names[i]]] :
               names \in [1 .. n -> FileNames]} : n \in 0 .. MaxBatch}

\* a query that looks at the ingests of every scan
GetIngestsOfAnyScan(stored, scan_id, file_names) ==
    {g \in stored : file_names # <<>> => g.file_name \in Range(file_names)}

\* get_ingests_by_scan, lines 132-139
GetIngestsByScan(stored, scan_id, file_names) ==
    {g \in stored :
        /\ scan_id # 0 => g.scan_id = scan_id
        /\ file_names # <<>> => g.file_name \in Range(file_names)}

\* a loop that forgets a name once it has dropped an ingest for it
RECURSIVE DedupLoopForgetful(_, _)
DedupLoopForgetful(new_ingests, seen) ==
    IF new_ingests = <<>> THEN <<>>
    ELSE IF Head(new_ingests).file_name \in seen
         THEN DedupLoopForgetful(Tail(new_ingests), seen \ {Head(new_ingests).file_name})
         ELSE <<Head(new_ingests)>>
              \o DedupLoopForgetful(Tail(new_ingests), seen \cup {Head(new_ingests).file_name})

\* the batch without the ingests whose file name was seen, in the stored
\* ingests of the scan or earlier in the batch
RECURSIVE DedupLoop(_, _)
DedupLoop(new_ingests, seen) ==
    IF new_ingests = <<>> THEN <<>>
    ELSE IF Head(new_ingests).file_name \in seen
         THEN DedupLoop(Tail(new_ingests), seen)
         ELSE <<Head(new_ingests)>>
              \o DedupLoop(Tail(new_ingests), seen \cup {Head(new_ingests).file_name})

\* the scanner's _deduplicate_ingest_list(scan_id, new_ingests)
DeduplicateIngestList(stored, scan_id, new_ingests) ==
    LET file_names == [i \in DOMAIN new_ingests |-> new_ingests[i].file_name]
        existing == GetIngestsByScan(stored, scan_id, file_names)
    IN DedupLoop(new_ingests, {g.file_name : g \in existing})

\* a batch of a scan is deduplicated. The method is static and keeps nothing,
\* so one batch per behaviour shows all there is.
Deduplicate ==
    /\ dedup_call = NoDedupCall
    /\ \E stored \in SUBSET StoredIngests, scan_id \in ScanIds,
          new_ingests \in NewIngestLists :
          dedup_call' = [op |-> "deduplicate", scan_id |-> scan_id,
                         new_ingests |-> new_ingests, stored |-> stored,
                         returned |-> DeduplicateIngestList(stored, scan_id, new_ingests),
                         again |-> FALSE, first |-> <<>>]
    /\ UNCHANGED <<schedVars, retryVars, cleanupVars, lockVars, volumeVars, ingestVars,
                   statusVars, scannerVars>>

\* what came back is deduplicated once more, the table as it was
DeduplicateAgain ==
    /\ dedup_call.op = "deduplicate"
    /\ ~dedup_call.again
    /\ dedup_call' = [dedup_call EXCEPT
                         !.new_ingests = dedup_call.returned,
                         !.returned = DeduplicateIngestList(dedup_call.stored,
                                                            dedup_call.scan_id,
                                                            dedup_call.returned),
                         !.again = TRUE,
                         !.first = dedup_call.new_ingests]
    /\ UNCHANGED <<schedVars, retryVars, cleanupVars, lockVars, volumeVars, ingestVars,
                   statusVars, scannerVars>>

NextDedup == Deduplicate \/ DeduplicateAgain

SpecDedup == Init /\ [][NextDedup]_vars

\* ------------------------------------------------------ the scanner of a scan
MaxFiles == 3
MaxCount == 6

\* a scanner that does not look at its stop flag
StopSeenNever(sc) == FALSE

\* the stop flag as _callback reads it
StopSeen(sc) == sc.stop_received

\* _callback, the walk over the n files delivered: for each, give up when
\* stop was asked for, else hand the file to _ingest_file and count it
RECURSIVE CallbackLoop(_, _, _)
CallbackLoop(n, sc, calls) ==
    IF n = 0 THEN [scanner |-> sc, calls |-> calls, raised |-> "none"]
    ELSE IF StopSeen(sc)
         THEN [scanner |-> sc, calls |-> calls, raised |-> "ScannerInterruptRequested"]
         ELSE CallbackLoop(n - 1, [sc EXCEPT !.count = @ + 1],
                           Append(calls, "_ingest_file"))

\* a callback that goes on to deduplicate and start tasks in a dry run too
AfterFilesAlsoInDryRun(sc, calls) ==
    calls \o <<"_deduplicate_ingest_list", "_start_ingest_tasks">>

\* _callback after the walk: a dry run returns, a scan deduplicates the
\* ingests and starts their tasks
AfterFiles(sc, calls) ==
    IF sc.dry_run THEN calls
    ELSE calls \o <<"_deduplicate_ingest_list", "_start_ingest_tasks">>

\* scanner._dry_run = True, before the scan runs
SetDryRun ==
    /\ scan_call = NoScanCall
    /\ scanner' = [scanner EXCEPT !.dry_run = TRUE]
    /\ scan_call' = [NoScanCall EXCEPT !.op = "dry_run"]
    /\ UNCHANGED <<schedVars, retryVars, cleanupVars, lockVars, volumeVars, ingestVars,
                   statusVars, dedupVars>>

\* scanner.stop()
Stop ==
    /\ scanner' = [scanner EXCEPT !.stop_received = TRUE]
    /\ scan_call' = [NoScanCall EXCEPT !.op = "stop", !.count_before = scanner.count,
                                       !.stopped_before = scanner.stop_received]
    /\ UNCHANGED <<schedVars, retryVars, cleanupVars, lockVars, volumeVars, ingestVars,
                   statusVars, dedupVars>>

\* scanner._callback(file_list) with n files
Callback(n) ==
    /\ scanner.count + n <= MaxCount
    /\ LET walk == CallbackLoop(n, scanner, <<>>)
       IN /\ scanner' = walk.scanner
          /\ scan_call' = [op |-> "_callback", files |-> n, raised |-> walk.raised,
                           calls |-> IF walk.raised = "none"
                                     THEN AfterFiles(walk.scanner, walk.calls)
                                     ELSE walk.calls,
                           count_before |-> scanner.count,
                           stopped_before |-> scanner.stop_received]
    /\ UNCHANGED <<schedVars, retryVars, cleanupVars, lockVars, volumeVars, ingestVars,
                   statusVars, dedupVars>>

NextScanner ==
    \/ SetDryRun
    \/ Stop
    \/ \E n \in 0 .. MaxFiles : Callback(n)

SpecScanner == Init /\ [][NextScanner]_vars

\* ------------------------------------------------------------ observations
\* The round whose record is held ran to completion (run() reached line 81).
RoundCompleted == pc \in {"idle", "stopped"} /\ round.result \in {"ok", "transient"}

\* run() is no longer inside a round: it completed one, or left it by an error.
RoundOver == pc \in {"idle", "stopped", "crashed"} /\ round.result # "none"

LaunchCount(o) ==
    Cardinality({i \in 1 .. Len(round.launch_calls) : o \in round.launch_calls[i].offer_ids})

TimesHandled(o) == LaunchCount(o) + (IF o \in round.declined THEN 1 ELSE 0)

LaunchedTasks == UNION {Range(round.launch_calls[i].tasks) : i \in 1 .. Len(round.launch_calls)}

NumLaunched == SumLen(SortedSeq(1 .. Len(round.launch_calls)),
                      [i \in 1 .. Len(round.launch_calls) |-> round.launch_calls[i].tasks])

IsNew(c) == c.op = "consider_new_job_exe"
IsNext(c) == c.op = "consider_next_task"

NumAdmitted(calls) ==
    Cardinality({i \in 1 .. Len(calls) : IsNew(calls[i]) /\ calls[i].result = "ACCEPTED"})

ConsideredNew == {round.calls[i].id : i \in {j \in 1 .. Len(round.calls) : IsNew(round.calls[j])}}

AcceptedNext ==
    {round.calls[i].id :
        i \in {j \in 1 .. Len(round.calls) :
                  IsNext(round.calls[j]) /\ round.calls[j].result = "ACCEPTED"}}

GroupOffers(n) ==
    UNION {round.groups[i].offer_ids : i \in {j \in 1 .. Len(round.groups) : round.groups[j].node = n}}

C2_LaunchWithinOffers ==
    /\ \A i \in 1 .. Len(round.launch_calls) :
          Fits(SumRequired(round.launch_calls[i].tasks),
               SumOfferRes(round.launch_calls[i].offer_ids))
    /\ \A n \in Nodes : Fits(ZeroRes, node_offers[n].available)

C2_Witness ==
    \E i \in 1 .. Len(round.launch_calls) :
        /\ Len(round.launch_calls[i].tasks) >= 2
        /\ Range(round.launch_calls[i].tasks) \cap round.started # {}
        /\ Range(round.launch_calls[i].tasks) \cap round.added # {}

\* C3: an execution never has more than one task outstanding on the driver,
\* and a task is outstanding there only while the execution itself counts it
\* as its current task.
C3_OneOutstandingTask ==
    \A e \in QueueIds :
        /\ outstanding_tasks[e] <= 1
        /\ outstanding_tasks[e] = 1 => job_exes[e].status = "running" /\ job_exes[e].outstanding

C3_Witness ==
    \E e \in QueueIds :
        /\ job_exes[e].task_index = 2
        /\ outstanding_tasks[e] = 1
        /\ e \in round.started

\* C4: when the persistence call fails with OperationalError after its retries,
\* the round still launches every next task it started for a running
\* execution, adds no execution to the running manager and leaves the batch
\* queued.
C4_TransientFailureKeepsRunningTasks ==
    (RoundCompleted /\ round.result = "transient") =>
        /\ round.started \subseteq LaunchedTasks
        /\ round.added = {}
        /\ \A i \in 1 .. Len(round.batch) :
              /\ round.batch[i].q \in queue
              /\ job_exes[round.batch[i].q].status = "queued"

C4_Witness ==
    /\ RoundCompleted
    /\ round.result = "transient"
    /\ round.started # {}
    /\ round.batch # <<>>
    /\ round.started \subseteq LaunchedTasks

\* C5 as stated: after a transient failure on every try the queued executions
\* are not in the running manager and the offers reserved for them are passed
\* to declineOffer at the end of the round.
C5_ReservedOffersDeclined ==
    (RoundCompleted /\ round.result = "transient") =>
        /\ round.added = {}
        /\ \A i \in 1 .. Len(round.batch) :
              GroupOffers(round.batch[i].node) \subseteq round.declined

\* C5 (amended): after a transient failure on every try the queued executions
\* are not in the running manager, and the offers reserved for them are never
\* passed to declineOffer: they are passed to launchTasks in that round, in one
\* call per node, with only the next tasks started for that node's accepted
\* running executions (an empty list when there are none).
C5_ReservedOffersLaunchedWithoutThem ==
    (RoundCompleted /\ round.result = "transient") =>
        /\ round.added = {}
        /\ \A i \in 1 .. Len(round.batch) :
              LET n == round.batch[i].node IN
              /\ GroupOffers(n) # {}
              /\ GroupOffers(n) \cap round.declined = {}
              /\ \E j \in 1 .. Len(round.launch_calls) :
                    /\ round.launch_calls[j].node = n
                    /\ round.launch_calls[j].offer_ids = GroupOffers(n)
                    /\ Range(round.launch_calls[j].tasks) \subseteq round.started
                    /\ round.batch[i].q \notin Range(round.launch_calls[j].tasks)
              /\ \A o \in GroupOffers(n) : LaunchCount(o) = 1

C5_Witness ==
    /\ RoundCompleted
    /\ round.result = "transient"
    /\ round.batch # <<>>
    /\ \E j \in 1 .. Len(round.launch_calls) : round.launch_calls[j].tasks = <<>>


\* C6: a completed round that launched no task declined every offer
\* pop_all_offers() returned (all the offers the round had readied and had not
\* popped with accepted work) and slept; a completed round that launched a task
\* declined nothing, did not sleep and left the other offers in the manager.
C6_DeclineAndSleepIffNoTask ==
    RoundCompleted =>
        LET rest == round.readied \ UNION {GroupOffers(n) : n \in Nodes} IN
        IF NumLaunched = 0
        THEN /\ round.declined = rest
             /\ round.slept
             /\ AllOfferIds(node_offers) = {}
        ELSE /\ round.declined = {}
             /\ ~round.slept
             /\ AllOfferIds(node_offers) = rest

C6_Witness ==
    /\ RoundCompleted
    /\ NumLaunched = 0
    /\ round.slept
    /\ Cardinality(round.declined) >= 2

\* C7: in a round that found the scheduler paused, consider_new_job_exe is
\* called for no queue entry and the batch is empty, while consider_next_task
\* was called for every running execution and, once the round completes, every
\* accepted next task was launched unless its execution failed in between.
C7_PausedAdmitsNothing ==
    round.paused =>
        /\ ConsideredNew = {}
        /\ round.batch = <<>>
        /\ round.added = {}
        /\ {round.calls[i].id : i \in {j \in 1 .. Len(round.calls) : IsNext(round.calls[j])}}
               = round.running_seen
        /\ RoundCompleted =>
              /\ round.started \subseteq LaunchedTasks
              /\ \A e \in AcceptedNext : e \in round.started \/ job_exes[e].status = "failed"

C7_Witness ==
    /\ RoundCompleted
    /\ round.paused
    /\ round.readied # {}
    /\ queue # {}
    /\ AcceptedNext # {}
    /\ AcceptedNext \subseteq LaunchedTasks

\* C8: a queue entry whose job type is absent from, or paused in, the round's
\* job type snapshot is not passed to consider_new_job_exe, is not in the batch
\* and is not scheduled; and it does not use up the cap: while fewer than
\* MAX_NEW_JOB_EXES entries were admitted, every other queue entry was
\* considered.
C8_SkippedNeverConsidered ==
    /\ \A q \in ConsideredNew : job_types[JobTypeOf(q)] = "active"
    /\ \A i \in 1 .. Len(round.batch) : job_types[JobTypeOf(round.batch[i].q)] = "active"
    /\ \A q \in round.added : job_types[JobTypeOf(q)] = "active"
    /\ (pc = "schedule" /\ ~round.paused /\ NumAdmitted(round.calls) < MAX_NEW_JOB_EXES) =>
          \A q \in queue : job_types[JobTypeOf(q)] = "active" => q \in ConsideredNew

C8_Witness ==
    /\ pc = "schedule"
    /\ 2 \in queue
    /\ job_types[JobTypeOf(2)] = "absent"
    /\ ConsideredNew = {1, 3}
    /\ NumAdmitted(round.calls) = 2

\* C9: a round admits at most MAX_NEW_JOB_EXES queued executions and hands at
\* most that many to the persistence call; no queue entry is considered once
\* the cap is reached; and a rejected entry does not count: while fewer were
\* admitted, the iteration went through the whole queue.
C9_AdmissionsCapped ==
    /\ NumAdmitted(round.calls) <= MAX_NEW_JOB_EXES
    /\ Len(round.batch) <= MAX_NEW_JOB_EXES
    /\ \A i \in 1 .. Len(round.calls) :
          IsNew(round.calls[i]) => NumAdmitted(SubSeq(round.calls, 1, i - 1)) < MAX_NEW_JOB_EXES
    /\ (pc = "schedule" /\ ~round.paused /\ NumAdmitted(round.calls) < MAX_NEW_JOB_EXES) =>
          \A q \in queue : job_types[JobTypeOf(q)] = "active" => q \in ConsideredNew

C9_Witness ==
    /\ pc = "schedule"
    /\ NumAdmitted(round.calls) = MAX_NEW_JOB_EXES
    /\ \E q \in queue : job_types[JobTypeOf(q)] = "active" /\ q \notin ConsideredNew

\* C10: within a round no consider_next_task call follows a
\* consider_new_job_exe call, and when a running execution's next task is
\* considered its node holds no reservation of a queued execution.
C10_RunningBeforeQueued ==
    /\ \A i, j \in 1 .. Len(round.calls) :
          (IsNew(round.calls[i]) /\ IsNext(round.calls[j])) => j < i
    /\ \A j \in 1 .. Len(round.calls) : IsNext(round.calls[j]) => round.calls[j].queued_ahead = 0

C10_Witness ==
    /\ \E j \in 1 .. Len(round.calls) : IsNext(round.calls[j]) /\ round.calls[j].result = "ACCEPTED"
    /\ \E i \in 1 .. Len(round.calls) : IsNew(round.calls[i]) /\ round.calls[i].result = "REJECTED"

\* C11: every declineOffer call of a round is made by the step that ends the
\* round, after _perform_scheduling has taken all the round's
\* consider_next_task and consider_new_job_exe decisions and popped the
\* accepted groups: the declining step takes no decision, declines only
\* offers that the round readied and that were not popped with accepted work,
\* and leaves none of them in the offer manager; the next round's decisions
\* are taken on offers that were not declined.
C11_DeclineAfterDecisions ==
    [][/\ (round' # round /\ round'.declined # {}) =>
             /\ pc = "schedule"
             /\ round'.calls = round.calls
             /\ round'.declined \subseteq round.readied
             /\ \A i \in 1 .. Len(round'.groups) :
                    round'.groups[i].offer_ids \cap round'.declined = {}
             /\ AllOfferIds(node_offers') \cap round'.declined = {}
       /\ (pc = "idle" /\ pc' = "schedule") =>
             /\ round'.declined = {}
             /\ round'.readied \cap round.declined = {}
      ]_vars

C11_Witness ==
    /\ RoundCompleted
    /\ round.declined # {}
    /\ round.groups # <<>>
    /\ \E i \in 1 .. Len(round.calls) : round.calls[i].result = "ACCEPTED"

\* C12: shutdown() only clears the flag (it changes nothing of the round in
\* progress, of the offers or of the tasks outstanding on the driver) and the
\* flag stays cleared; with the flag cleared no round is started; run() leaves
\* its loop only between rounds; and, unless a call of the round in progress
\* raises an error that run() does not catch, run() terminates after shutdown.
C12_ShutdownEndsLoop ==
    /\ [][/\ (~running => ~running')
           /\ (~running /\ pc = "idle" => pc' # "schedule")
           /\ (pc' = "stopped" /\ pc # "stopped" => pc = "idle" /\ ~running)
           /\ (running /\ ~running' =>
                  UNCHANGED <<pc, job_types, new_offers, node_offers, queue, job_exes,
                              next_offer, outstanding_tasks, round>>)
          ]_vars
    /\ ([](pc # "crashed") => (~running ~> pc = "stopped"))

C12_Witness ==
    /\ pc = "stopped"
    /\ ~running
    /\ round.result = "ok"
    /\ NumLaunched > 0

\* C13: the call of _schedule_queued_job_executions in a round invokes
\* Queue.objects.schedule_job_executions at most max_tries times; every
\* invocation but the last raised OperationalError; OperationalError reaches
\* the except clause only after max_tries invocations; and an invocation that
\* raised any other error is the last one and its error leaves the round
\* uncaught.
C13_RetriesBoundedOthersPropagate ==
    /\ Len(attempts) <= max_tries
    /\ \A i \in 1 .. Len(attempts) - 1 : attempts[i] = "OperationalError"
    /\ retry_pc = "call" => \A i \in 1 .. Len(attempts) : attempts[i] = "OperationalError"
    /\ retry_pc = "caught" =>
          Len(attempts) = max_tries /\ attempts[max_tries] = "OperationalError"
    /\ retry_pc = "returned" => attempts[Len(attempts)] = "ok"
    /\ (\E i \in 1 .. Len(attempts) : attempts[i] = "Error") <=> retry_pc = "propagated"

C13_Witness ==
    /\ retry_pc = "propagated"
    /\ Len(attempts) > 1
    /\ job_executions # {}

\* C14: add_job_execution(exe) raises no error; for an exe whose node id is
\* not in _nodes it leaves the manager as it was, and for a known node it
\* appends the exe to that node's cleanup queue and changes nothing else.
C14_AddJobExecutionFailsSilently ==
    [][\A e \in JobExeIds, n \in Nodes :
          AddJobExecution(e, n) =>
             /\ last'.raised = "none"
             /\ agent_ids' = agent_ids
             /\ IF n \in DOMAIN nodes
                THEN nodes' = [nodes EXCEPT ![n].queue = Append(@, e)]
                ELSE nodes' = nodes
      ]_vars

\* C15: after update_nodes(node_list) the keys of _agent_ids are exactly the
\* agent ids of the nodes in node_list, and each is mapped to the id of its
\* node: no entry of an earlier call survives.
C15_AgentMapRecomputed ==
    [][\A node_list \in NodeLists :
          UpdateNodes(node_list) =>
             /\ DOMAIN agent_ids' = {node_list[i].agent_id : i \in 1 .. Len(node_list)}
             /\ \A i \in 1 .. Len(node_list) :
                    agent_ids'[node_list[i].agent_id] = node_list[i].id
      ]_vars

C15_Witness ==
    /\ last.op = "update_nodes"
    /\ \E n \in DOMAIN nodes :
          /\ nodes[n].agent_id \notin DOMAIN agent_ids
          /\ \E a \in DOMAIN agent_ids : agent_ids[a] = n
    /\ Cardinality(DOMAIN agent_ids) = 2

\* C16: update_nodes(node_list) leaves the cleanup queue and the in-flight
\* task of every node id that was known before the call and is in node_list
\* exactly as they were, whatever agent id the node now has; a node id seen
\* for the first time gets an empty queue and no in-flight task.
C16_UpdateNodesKeepsQueues ==
    [][\A node_list \in NodeLists :
          UpdateNodes(node_list) =>
             \A i \in 1 .. Len(node_list) :
                LET n == node_list[i].id IN
                /\ n \in DOMAIN nodes'
                /\ IF n \in DOMAIN nodes
                   THEN /\ nodes'[n].queue = nodes[n].queue
                        /\ nodes'[n].current_task = nodes[n].current_task
                   ELSE /\ nodes'[n].queue = <<>>
                        /\ nodes'[n].current_task = <<>>
      ]_vars

C16_Witness ==
    /\ last.op = "update_nodes"
    /\ \E n \in DOMAIN nodes :
          /\ Len(nodes[n].queue) > 0
          /\ Len(nodes[n].current_task) > 1
          /\ nodes[n].agent_id \notin DOMAIN agent_ids
          /\ \E a \in DOMAIN agent_ids : agent_ids[a] = n

\* C17: a handle_task_update or handle_task_timeout call whose agent id is
\* not a key of _agent_ids raises no error and changes no node's cleanup
\* queue or in-flight task, nor the agent map.
C17_UnknownAgentDropped ==
    [][(/\ last'.op \in {"handle_task_update", "handle_task_timeout"}
        /\ last'.agent_id \notin DOMAIN agent_ids) =>
           /\ nodes' = nodes
           /\ agent_ids' = agent_ids
           /\ last'.node_id = 0
           /\ last'.raised = "none"
      ]_vars

C17_Witness ==
    /\ last.op = "handle_task_timeout"
    /\ last.agent_id \notin DOMAIN agent_ids
    /\ last.task_id \in DOMAIN nodes
    /\ nodes[last.task_id].current_task # <<>>
    /\ last.agent_id \in AgentPool[last.task_id]

\* C18: once update_nodes has delivered a known node n under an agent id
\* other than the one n was first seen with, a task update that carries n's
\* earlier agent id changes no cleanup queue and no in-flight task, and a task
\* update that carries n's present agent id for the task in flight on n is
\* passed on to n: a terminal status ends n's in-flight task and the other
\* nodes are left alone.
C18_OldAgentDroppedNewAgentApplied ==
    [][\A n \in DOMAIN nodes, cur \in DOMAIN agent_ids :
          (agent_ids[cur] = n /\ nodes[n].agent_id # cur) =>
             \A t \in TaskIds, s \in TaskStatuses :
                /\ HandleTaskUpdate(nodes[n].agent_id, t, s) =>
                      /\ nodes' = nodes
                      /\ last'.node_id = 0
                /\ (HandleTaskUpdate(cur, t, s) /\ t = n) =>
                      /\ last'.node_id = n
                      /\ nodes'[n].current_task = IF s = "RUNNING" THEN nodes[n].current_task
                                                   ELSE <<>>
                      /\ \A k \in DOMAIN nodes \ {n} : nodes'[k] = nodes[k]
      ]_vars

C18_Witness ==
    /\ last.op = "handle_task_update"
    /\ last.node_id \in DOMAIN nodes
    /\ last.task_id = last.node_id
    /\ last.status = "FINISHED"
    /\ last.agent_id # nodes[last.node_id].agent_id
    /\ nodes[last.node_id].current_task = <<>>
    /\ nodes[last.node_id].queue # <<>>

\* C19: for the task in flight on node n, delivered under an agent id that
\* _agent_ids maps to n: RUNNING changes nothing; FINISHED clears the
\* in-flight task and leaves the queue as it is, so the task's executions are
\* gone; FAILED, LOST and a timeout clear the in-flight task and put its
\* executions back at the front of the queue. And in every step, a node loses
\* an execution it holds only by a FINISHED update passed on to that node.
C19_StatusTransitions ==
    [][/\ \A a \in DOMAIN agent_ids, s \in TaskStatuses :
             LET n == agent_ids[a] IN
             HandleTaskUpdate(a, n, s) =>
                /\ \A k \in DOMAIN nodes \ {n} : nodes'[k] = nodes[k]
                /\ s = "RUNNING" => nodes'[n] = nodes[n]
                /\ s = "FINISHED" =>
                      /\ nodes'[n].current_task = <<>>
                      /\ nodes'[n].queue = nodes[n].queue
                /\ s \in {"FAILED", "LOST"} =>
                      /\ nodes'[n].current_task = <<>>
                      /\ nodes'[n].queue = nodes[n].current_task \o nodes[n].queue
       /\ \A a \in DOMAIN agent_ids :
             LET n == agent_ids[a] IN
             HandleTaskTimeout(a, n) =>
                /\ \A k \in DOMAIN nodes \ {n} : nodes'[k] = nodes[k]
                /\ nodes'[n].current_task = <<>>
                /\ nodes'[n].queue = nodes[n].current_task \o nodes[n].queue
       /\ \A n \in DOMAIN nodes :
             \/ Held(nodes[n]) \subseteq Held(nodes'[n])
             \/ /\ last'.op = "handle_task_update"
                /\ last'.status = "FINISHED"
                /\ last'.node_id = n
                /\ Held(nodes'[n]) = Range(nodes[n].queue)
      ]_vars

C19_Witness ==
    /\ last.op = "handle_task_update"
    /\ last.status = "LOST"
    /\ last.node_id \in DOMAIN nodes
    /\ last.task_id = last.node_id
    /\ nodes[last.node_id].current_task = <<>>
    /\ Len(nodes[last.node_id].queue) > CleanupBatchCap

\* C20: get_next_tasks returns at most one task per node, and a task for node
\* n only when n had no cleanup task in flight and a non-empty queue; the
\* returned task becomes n's in-flight task, and a node with a task in flight
\* is left as it is. In every step a node's in-flight task is never replaced
\* by another task: it ends (FINISHED, FAILED, LOST, timeout) before
\* get_next_tasks hands out the next one.
C20_OneCleanupTaskInFlight ==
    [][/\ GetNextTasks =>
             /\ \A t1, t2 \in last'.returned : t1.node_id = t2.node_id => t1 = t2
             /\ \A t \in last'.returned :
                    /\ t.node_id \in DOMAIN nodes
                    /\ nodes[t.node_id].current_task = <<>>
                    /\ nodes[t.node_id].queue # <<>>
                    /\ t.job_exes # <<>>
                    /\ nodes'[t.node_id].current_task = t.job_exes
             /\ \A n \in DOMAIN nodes :
                    (nodes[n].current_task # <<>> \/ nodes[n].queue = <<>>) =>
                       /\ nodes'[n] = nodes[n]
                       /\ \A t \in last'.returned : t.node_id # n
       /\ \A n \in DOMAIN nodes :
             (nodes[n].current_task # <<>> /\ nodes'[n].current_task # <<>>) =>
                nodes'[n].current_task = nodes[n].current_task
       /\ \A n \in DOMAIN nodes :
             (nodes[n].current_task = <<>> /\ nodes'[n].current_task # <<>>) =>
                last'.op = "get_next_tasks"
      ]_vars

C20_Witness ==
    /\ last.op = "get_next_tasks"
    /\ Cardinality(last.returned) = 1
    /\ \E n \in DOMAIN nodes :
          /\ \A t \in last.returned : t.node_id # n
          /\ nodes[n].current_task # <<>>
          /\ nodes[n].queue # <<>>

\* C21: a thread is between the with statement and the end of a
\* CleanupManager method only while it holds the lock, so never two threads
\* at once; and whenever a thread is inside a method other than update_nodes,
\* in particular handle_task_update or handle_task_timeout reading the agent
\* map, _agent_ids is the map the last completed update_nodes left (the whole
\* old one or the whole new one) and the lookup on lines 55 and 68 finds the
\* key that the test on lines 53 and 66 found.
C21_MethodsUnderOneLock ==
    /\ \A t \in Threads : InBody(t) => lock = t
    /\ \A t \in Threads :
          (InBody(t) /\ thread[t].method # "update_nodes") => agent_ids = committed
    /\ \A t \in Threads :
          thread[t].method \in {"handle_task_update", "handle_task_timeout"} =>
             thread[t].raised = "none"

C21_Witness ==
    /\ thread[2].method = "handle_task_update"
    /\ thread[2].pc = "dispatch"
    /\ thread[1].method = "update_nodes"
    /\ thread[1].pc = "acquire"
    /\ thread[2].agent_id \notin {thread[1].node_list[i].agent_id :
                                     i \in 1 .. Len(thread[1].node_list)}
    /\ nodes[thread[2].node_id].current_task # <<>>

\* C22: whatever add_job_execution calls (the same execution handed over
\* again included) and node updates happen, an execution id is in at most one
\* place of all the cleanup queues, and a node that did not hold it gets it
\* in its queue only by an add_job_execution for that node.
Occurrences(q, e) == Cardinality({i \in DOMAIN q : q[i] = e})

QueuedOnce(nds) ==
    \A e \in JobExeIds :
       /\ \A k \in DOMAIN nds : Occurrences(nds[k].queue, e) <= 1
       /\ Cardinality({k \in DOMAIN nds : e \in Range(nds[k].queue)}) <= 1

C23_NewOffersWaitForNextRound ==
    [][ /\ new_offers' \cap (AllOfferIds(node_offers') \cup round'.readied
                               \cup round'.popped \cup round'.declined) = {}
        /\ \A o \in AllOfferIds(node_offers') \ AllOfferIds(node_offers) :
              pc = "idle" /\ pc' = "schedule" /\ o \in new_offers
        /\ \A o \in new_offers \ new_offers' :
              /\ pc = "idle" /\ pc' = "schedule"
              /\ o \in round'.readied
              /\ o \in AllOfferIds(node_offers')
      ]_vars

\* a round has made its admission decisions on one offer and is about to
\* launch, while another offer, delivered since, waits in the buffer
C23_Witness ==
    /\ pc = "schedule"
    /\ round.readied # {}
    /\ new_offers # {}
    /\ new_offers \cap round.readied = {}
    /\ \E i \in 1 .. Len(round.calls) : round.calls[i].result = "ACCEPTED"
\* C24: to_docker_param returns one parameter of key 'volume'; for a host
\* mount its value is host_path:container_path:mode, and for a volume that is
\* no host mount and has neither driver nor driver options it is
\* $(docker volume create --name name):container_path:mode.
C24_HostMountAndPlainVolume ==
    docker_param # NoDockerParam =>
       /\ docker_param.flag = "volume"
       /\ volume.is_host =>
             docker_param.value =
                <<Str(volume.host_path), ":", Str(volume.container_path), ":", Str(volume.mode)>>
       /\ (~volume.is_host /\ ~Truthy(volume.driver) /\ volume.driver_opts = <<>>) =>
             docker_param.value =
                <<"$(docker volume create --name ", Str(volume.name), ")",
                  ":", Str(volume.container_path), ":", Str(volume.mode)>>

\* the parameter of a named volume without driver and options was returned
C24_Witness ==
    /\ docker_param.flag = "volume"
    /\ ~volume.is_host
    /\ volume.driver = None
    /\ volume.driver_opts = <<>>
    /\ volume.name = "vol"
    /\ volume.mode = MODE_RW

\* C25: for a volume that is no host mount and has a driver, the create
\* command is --name name, then --driver driver, then one --opt k=v per
\* driver option, the options in the order they were put into driver_opts.
OptsInInsertionOrder(d) ==
    [i \in DOMAIN d |-> <<"--opt ", d[i].k, "=", d[i].v>>]

C25_DriverThenOptsInInsertionOrder ==
    (docker_param # NoDockerParam /\ ~volume.is_host /\ Truthy(volume.driver)) =>
       docker_param.value =
          <<"$(docker volume create --name ", Str(volume.name), " ">>
          \o Join(<<" ">>, <<(<<"--driver ", volume.driver>>)>>
                           \o OptsInInsertionOrder(volume.driver_opts))
          \o <<")", ":", Str(volume.container_path), ":", Str(volume.mode)>>
\* C26: after add_data_type_tag(t) has returned, get_data_type_tags() holds t
\* and every tag it held before the call, and when t was among them already
\* it holds the same tags as before.
C26_AddTagKeepsTags ==
    (tag_call.op = "add_data_type_tag" /\ tag_call.raised = "none") =>
       LET before == GetDataTypeTags(tag_call.before)
           after == GetDataTypeTags(data_type)
       IN /\ tag_call.tag \in after
          /\ before \subseteq after
          /\ tag_call.tag \in before => after = before

\* a tag was added a second time to an ingest with two tags, and the string
\* was written back with the tags in another order
C26_Witness ==
    /\ tag_call.op = "add_data_type_tag"
    /\ tag_call.raised = "none"
    /\ tag_call.tag \in GetDataTypeTags(tag_call.before)
    /\ Cardinality(GetDataTypeTags(tag_call.before)) = 2
    /\ data_type # tag_call.before

\* C27: add_data_type_tag with a tag that is empty or has a character outside
\* [A-Za-z0-9_ ] raises InvalidDataTypeTag and leaves data_type as it was.
C27_InvalidTagRejected ==
    ( /\ tag_call.op = "add_data_type_tag"
      /\ \/ tag_call.tag = <<>>
         \/ \E i \in DOMAIN tag_call.tag : tag_call.tag[i] \notin TagClass )
    => (tag_call.raised = "InvalidDataTypeTag" /\ data_type = tag_call.before)

\* a tag with a valid first character and a comma after it was refused on an
\* ingest that has tags
C27_Witness ==
    /\ tag_call.op = "add_data_type_tag"
    /\ tag_call.tag = <<"a", ",">>
    /\ tag_call.raised = "InvalidDataTypeTag"
    /\ data_type = <<"a", "a", ",", "a">>
\* C28: for every strike and every range whose end is not on an earlier day
\* than its start, the values list of the rollup has 24 entries for each day
\* from the day of started to the day of ended, one per hour and in order; an
\* entry counts the ingests of the strike that the query counted in that hour,
\* and is a zero entry when there is none.
RangeStart == IF status_call.started # NoTime THEN status_call.started
              ELSE [date |-> status_call.today, hour |-> 0]
RangeEnd == IF status_call.ended # NoTime THEN status_call.ended
            ELSE [date |-> status_call.today, hour |-> 23]

Counted(strike, date, hour) ==
    {g \in StatusQuery(status_call.ingests, status_call.started, status_call.ended,
                       status_call.use_ingest_time) :
        /\ g.strike = strike
        /\ Dated(g, status_call.use_ingest_time) = [date |-> date, hour |-> hour]}

C28_ValuesZeroFilledOverRange ==
    (status_call.op = "get_status" /\ RangeStart.date <= RangeEnd.date) =>
       \A k \in Strikes :
          LET values == status_call.returned[k].values
              days == RangeEnd.date - RangeStart.date
          IN /\ Len(values) = 24 * (days + 1)
             /\ \A d \in 0 .. days, h \in HoursOfDay :
                   LET v == values[24 * d + h + 1]
                       counted == Counted(k, RangeStart.date + d, h)
                   IN /\ v.time = TimeSlot(RangeStart.date + d, h)
                      /\ v.files = Cardinality(counted)
                      /\ v.size = FileSize * Cardinality(counted)

\* a rollup over the three days around the end of February, with a file of
\* strike 1 counted in the hour after noon of the first day
C28_Witness ==
    /\ status_call.op = "get_status"
    /\ RangeEnd.date - RangeStart.date = 2
    /\ Len(status_call.returned[1].values) = 72
    /\ status_call.returned[1].values[14].files = 1
    /\ status_call.returned[1].values[49].time = <<2016, 3, 1, 0>>
    /\ status_call.returned[2].values[14].files = 0
\* C29: what the deduplication of a batch of a scan returns is taken from
\* the batch, has no two ingests of one file name and none whose file name a
\* stored ingest of the same scan has; and an ingest of the batch whose file
\* name no stored ingest of the scan and no other ingest of the batch has is
\* returned.
PriorFileNames ==
    {g.file_name : g \in {r \in dedup_call.stored : r.scan_id = dedup_call.scan_id}}

C29_DedupByFileNameWithinScan ==
    dedup_call.op = "deduplicate" =>
       LET batch == dedup_call.new_ingests
           kept == dedup_call.returned
       IN /\ Range(kept) \subseteq Range(batch)
          /\ \A i, j \in DOMAIN kept : i # j => kept[i].file_name # kept[j].file_name
          /\ \A i \in DOMAIN kept : kept[i].file_name \notin PriorFileNames
          /\ \A i \in DOMAIN batch :
                ( /\ batch[i].file_name \notin PriorFileNames
                  /\ \A j \in DOMAIN batch : j # i => batch[j].file_name # batch[i].file_name )
                => batch[i] \in Range(kept)

\* of a batch with a file name twice and one more, the one more is stored for
\* the scan already and the double one for the other scan only: one is kept
C29_Witness ==
    /\ dedup_call.op = "deduplicate"
    /\ ~dedup_call.again
    /\ Len(dedup_call.new_ingests) = 3
    /\ Len(dedup_call.returned) = 1
    /\ PriorFileNames # {}
    /\ \E g \in dedup_call.stored :
          g.scan_id # dedup_call.scan_id /\ g.file_name = dedup_call.returned[1].file_name

\* C30: deduplicating the result of a deduplication, against the same stored
\* ingests of the scan, returns that result unchanged.
C30_DedupIdempotent ==
    dedup_call.again => dedup_call.returned = dedup_call.new_ingests

\* a batch of three with the same file name was deduplicated twice
C30_Witness ==
    /\ dedup_call.again
    /\ Len(dedup_call.first) = 3
    /\ Len(dedup_call.returned) = 1
    /\ PriorFileNames = {}
\* C31: a scanner on which nothing was called has its stop flag clear; stop()
\* sets the flag and no call clears it; a _callback with files on a scanner
\* whose flag is set raises ScannerInterruptRequested, hands no file to
\* _ingest_file and counts none.
C31_StoppedScannerInterrupts ==
    /\ scan_call.op \in {"none", "dry_run"} => ~scanner.stop_received
    /\ (scan_call.op = "stop" \/ scan_call.stopped_before) => scanner.stop_received
    /\ (scan_call.op = "_callback" /\ scan_call.stopped_before /\ scan_call.files > 0) =>
          /\ scan_call.raised = "ScannerInterruptRequested"
          /\ scan_call.calls = <<>>
          /\ scanner.count = scan_call.count_before

\* a scanner that had ingested files was stopped, and the callback with two
\* more files was interrupted
C31_Witness ==
    /\ scan_call.op = "_callback"
    /\ scan_call.stopped_before
    /\ scan_call.files = 2
    /\ scan_call.raised = "ScannerInterruptRequested"
    /\ scanner.count = 2

\* C32: a _callback that returns has raised the file count by the number of
\* files delivered and called _ingest_file once for each; in a dry run it
\* called nothing else, and outside a dry run it then called
\* _deduplicate_ingest_list and after it _start_ingest_tasks.
C32_CallbackCountsThenDedupsAndStarts ==
    (scan_call.op = "_callback" /\ scan_call.raised = "none") =>
       /\ scanner.count = scan_call.count_before + scan_call.files
       /\ Len(scan_call.calls) >= scan_call.files
       /\ \A i \in 1 .. scan_call.files : scan_call.calls[i] = "_ingest_file"
       /\ IF scanner.dry_run
          THEN Len(scan_call.calls) = scan_call.files
          ELSE SubSeq(scan_call.calls, scan_call.files + 1, Len(scan_call.calls))
                  = <<"_deduplicate_ingest_list", "_start_ingest_tasks">>

\* a dry run that had counted a file before returned from a callback with two
C32_Witness ==
    /\ scan_call.op = "_callback"
    /\ scan_call.raised = "none"
    /\ scanner.dry_run
    /\ scan_call.files = 2
    /\ scan_call.count_before = 1
    /\ scan_call.calls = <<"_ingest_file", "_ingest_file">>
\* C33: when the second half of a round is over, whatever the persistence
\* call did, every execution whose next task was started in the round (the
\* accepted running ones and the newly scheduled ones) has that task in the
\* task list of a launchTasks call of the round.
LaunchedInRound ==
    UNION {Range(round.launch_calls[i].tasks) : i \in DOMAIN round.launch_calls}

C33_StartedTasksLaunched ==
    round.result # "none" => (round.started \cup round.added) \subseteq LaunchedInRound

\* C34: every launchTasks call of a round carries the offers of one node only,
\* each task in its list is the task of an execution accepted on that node in
\* that round (a running one whose next task was accepted, or a queued one of
\* the batch gathered from that node's group), and every newly scheduled
\* execution is filed under a node group popped in the round.
PoppedNodes == {round.groups[i].node : i \in DOMAIN round.groups}

AcceptedOn(e, n) ==
    \/ e \in round.started /\ e \in AcceptedNext /\ job_exes[e].node = n
    \/ e \in round.added /\ \E i \in DOMAIN round.batch :
                                round.batch[i].q = e /\ round.batch[i].node = n

C34_LaunchCallsPerNode ==
    /\ \A i \in DOMAIN round.launch_calls :
          LET c == round.launch_calls[i] IN
          /\ c.node \in PoppedNodes
          /\ \A o \in c.offer_ids : OfferNode(o) = c.node
          /\ \A k \in DOMAIN c.tasks : AcceptedOn(c.tasks[k], c.node)
    /\ \A e \in round.added :
          \E i \in DOMAIN round.launch_calls :
              /\ round.launch_calls[i].node \in PoppedNodes
              /\ round.launch_calls[i].node = job_exes[e].node
              /\ e \in Range(round.launch_calls[i].tasks)

C34_Witness ==
    /\ Len(round.launch_calls) = 2
    /\ round.started # {}
    /\ round.added # {}
    /\ \E i \in DOMAIN round.launch_calls : Len(round.launch_calls[i].tasks) = 2

\* C35 as stated: as long as the loop keeps running rounds (a round is in
\* progress again and again), every offer that ready_new_offers made visible
\* to a round is eventually passed to launchTasks or to declineOffer.
Visible(o) == pc = "schedule" /\ o \in round.readied

Handled(o) == LaunchCount(o) > 0 \/ o \in round.declined

C35_EveryVisibleOfferHandled ==
    []<>(pc = "schedule") => \A o \in Offers : Visible(o) ~> Handled(o)

\* C35 (amended): as long as the loop keeps running rounds and rounds that
\* launch no task keep occurring, every offer that ready_new_offers made
\* visible to a round is eventually passed to launchTasks or to declineOffer.
C35_VisibleOfferHandledByBarrenRound ==
    ([]<>(pc = "schedule") /\ []<>(pc = "idle" /\ round.slept))
        => \A o \in Offers : Visible(o) ~> Handled(o)

C35_Witness ==
    /\ pc = "idle"
    /\ round.slept
    /\ next_offer > Len(OfferFeed)
    /\ job_exes[1].status = "running"
    /\ job_exes[1].task_index = TasksPerExe
    /\ \E o \in round.declined : OfferNode(o) # job_exes[1].node /\ o \notin round.readied \ round.popped

\* C36: in every state of the cleanup manager every node id the agent map
\* leads to is a key of the per-node cleanup table, so a status update or a
\* timeout of a mapped agent is passed on to a NodeCleanup and raises no
\* KeyError.
C36_AgentMapWithinNodes ==
    /\ \A a \in DOMAIN agent_ids : agent_ids[a] \in DOMAIN nodes
    /\ last.op \in {"handle_task_update", "handle_task_timeout"} =>
          /\ last.raised = "none"
          /\ last.node_id # 0 => last.node_id \in DOMAIN nodes

C36_Witness ==
    /\ last.op \in {"handle_task_update", "handle_task_timeout"}
    /\ last.agent_id \in DOMAIN agent_ids
    /\ last.node_id = agent_ids[last.agent_id]
    /\ DOMAIN nodes # {agent_ids[a] : a \in DOMAIN agent_ids}

\* C37: no step of the cleanup manager removes a node id from the per-node
\* table; update_nodes leaves the NodeCleanup of a node id that is not in its
\* list as it was; and get_next_tasks hands out a cleanup task for every node
\* id of the table with executions waiting and no task in flight, mapped by an
\* agent id or not.
MappedNodes == {agent_ids[a] : a \in DOMAIN agent_ids}

C37_NodesNeverShrink ==
    [][/\ DOMAIN nodes \subseteq DOMAIN nodes'
       /\ last'.op = "update_nodes" =>
             \A n \in DOMAIN nodes : n \notin MappedNodes' => nodes'[n] = nodes[n]
       /\ last'.op = "get_next_tasks" =>
             \A n \in DOMAIN nodes :
                NodeHasNextTask(nodes[n]) =>
                   /\ [node_id |-> n, job_exes |-> NodeGetNextTask(nodes[n]).task] \in last'.returned
                   /\ nodes'[n].current_task = NodeGetNextTask(nodes[n]).task
      ]_vars

C37_Witness ==
    /\ last.op = "get_next_tasks"
    /\ \E r \in last.returned :
          /\ r.node_id \notin MappedNodes
          /\ r.job_exes # <<>>
          /\ nodes[r.node_id].current_task = r.job_exes
====
